---- MODULE Spec2Model ----
(***************************************************************************)
(* Extraction orchestration of the Data-Extraction-AI service layer:       *)
(* extractStructuredData (strategy selection, chunk loops, progress) and   *)
(* callGeminiExtractWithRetry (classification-driven retry), in the        *)
(* multi-file revision of services/gemini.ts.                              *)
(*                                                                         *)
(* One extraction request is modelled.  Every `await` of the code is a     *)
(* point where the request is suspended, so every action runs the code     *)
(* from one await to the next.  The oracle (callGeminiExtract) answers a   *)
(* request in flight either with a record list or with an error whose      *)
(* message is abstracted to the set of pattern words it contains.          *)
(***************************************************************************)
EXTENDS Integers, Sequences, FiniteSets, TLC

VARIABLES
    files,          \* argument `files` of extractStructuredData
    rawText,        \* argument `rawText`, as a span [off, len] of the source text
    pc,             \* position of extractStructuredData (the await it is suspended at)
    chunks,         \* pageChunks (page index lists) or the text chunks
    i,              \* loop variable of the chunk loops (0-based)
    aggregatedData, \* accumulator of the chunk loops
    outcome,        \* settlement of the promise returned by extractStructuredData
    ex,             \* activation of callGeminiExtractWithRetry
    inflight,       \* oracle requests issued and not yet answered
    progress,       \* history: the values passed to onProgress, in order
    invocations,    \* history: the callGeminiExtractWithRetry invocations, in order
    oracleOut,      \* history: the record lists the oracle client returned, in order,
                    \*          each with the invocation it answered
    thrown,         \* history: the invocations of callGeminiExtractWithRetry that threw, in order
    retried,        \* history: some oracle call of this request has failed
    chunkerRan,     \* history: which of PDFDocument.load, chunkArray, chunkString ran
    responseText,   \* callGeminiExtract: response.text of the oracle, as its lexical tokens
    parsed,         \* callGeminiExtract: how the code after the oracle call settles
    apiKey,         \* process.env.API_KEY is set
    analyzer,       \* activation of analyzeExtractedData
    analysisCalls,  \* history: the analysis oracle calls of that activation, in order
    extractedData,  \* App state: the records shown
    analysis,       \* App state: the analysis shown, or null
    status,         \* App state: ProcessingStatus
    history,        \* App state: the instruction history shown
    storage,        \* localStorage: instruction history and the cached session
    runs,           \* the activations of handleProcess and handleReAnalyze, in start order
    form,           \* App state: instruction, rawText and the number of files of the input form
    chunker,        \* a call of chunkString or chunkArray: its arguments and what it returned
    added,          \* history: the instructions passed to addToInstructionHistory, in order
    single          \* activation of the single-document extractStructuredData

\* the variables of extractStructuredData and callGeminiExtractWithRetry
extractionVars == << files, rawText, pc, chunks, i, aggregatedData, outcome, ex, inflight,
                     progress, invocations, oracleOut, thrown, retried, chunkerRan >>

\* the variables of the response handling of callGeminiExtract
parseVars == << responseText, parsed >>

\* the variables of analyzeExtractedData
analysisVars == << apiKey, analyzer, analysisCalls >>

\* the variables of the App component
appVars == << extractedData, analysis, status, history, storage, runs, form >>

\* the variables of the helper functions called on their own
helperVars == << chunker, added, single >>

vars == << extractionVars, parseVars, analysisVars, appVars, helperVars >>

-----------------------------------------------------------------------------
(* Bounds of the model *)

MaxPages == 2        \* largest page count of a PDF
MaxFiles == 2        \* largest number of documents in one request
MaxTextBlocks == 1   \* raw text lengths go up to MaxTextBlocks * MAX_TEXT_LENGTH + 1
MaxRecs == 2         \* longest record list of one oracle answer
MaxTokens == 2       \* most pattern words in one error message
MaxResponseLen == 5  \* most lexical tokens in one oracle response text
MaxRuns == 3         \* most activations of handleProcess and handleReAnalyze together
MaxChunkInput == 8   \* longest text and largest page count given to the chunkers on their own
MaxChunkSize == 4    \* largest chunk size given to the chunkers on their own
MaxInstructions == 11 \* number of distinct extraction goals
MaxAdds == 2         \* most addToInstructionHistory calls after the stored history was loaded

(* Program constants *)

MAX_PAGES_PER_CHUNK == 1
MAX_TEXT_LENGTH == 12000
retries == 20
THROTTLE_MS == 10000
HISTORY_LIMIT == 10

-----------------------------------------------------------------------------
(* Values *)

RECURSIVE SeqsUpTo(_, _)
SeqsUpTo(S, n) ==
    IF n = 0 THEN {<< >>}
    ELSE LET shorter == SeqsUpTo(S, n - 1)
         IN  shorter \cup {Append(s, x) : s \in {t \in shorter : Len(t) = n - 1}, x \in S}

\* what callGeminiExtract can return to invocation `inv` of the executor: a list
\* of 0..MaxRecs records; a record is named by the answer and the place it has in it
Responses(inv) == {[k \in 1..n |-> [from |-> inv, k |-> k]] : n \in 0..MaxRecs}

\* the words the catch block of callGeminiExtractWithRetry looks for
QuotaWords == {"429", "quota", "limit", "exceeded"}
TransientWords == {"500", "503", "xhr", "fetch"}
SafetyWords == {"safety", "blocked"}
Tokens == QuotaWords \cup TransientWords \cup SafetyWords

\* (e.message || e.toString()).toLowerCase(), as the set of pattern words in it.
\* The catch block only asks whether some word of a class occurs, so messages
\* with at most one word of each class are drawn.
Messages ==
    {m \in SUBSET Tokens :
        /\ Cardinality(m) <= MaxTokens
        /\ Cardinality(m \cap QuotaWords) <= 1
        /\ Cardinality(m \cap TransientWords) <= 1
        /\ Cardinality(m \cap SafetyWords) <= 1}

includes(msg, word) == word \in msg

\* which classes of words a message contains
Mentions(msg) ==
    [quota |-> msg \cap QuotaWords # {},
     transient |-> msg \cap TransientWords # {},
     safety |-> msg \cap SafetyWords # {}]

\* no word of any class: an error the catch block has no pattern for
OtherClassified(w) == ~ w.quota /\ ~ w.transient /\ ~ w.safety

\* the words of a content-safety rejection and of no retryable class
SafetyClassified(w) == w.safety /\ ~ w.quota /\ ~ w.transient

NoWords == [quota |-> FALSE, transient |-> FALSE, safety |-> FALSE]

Min(a, b) == IF a <= b THEN a ELSE b
Max(a, b) == IF a >= b THEN a ELSE b

\* Math.ceil(a / b) for a >= 0, b > 0
Ceil(a, b) == (a + b - 1) \div b

\* base64 payload of a document: decodable as a PDF or not, and its pages
\* (indices into the pages of the original upload)
Pages(n) == [k \in 1..n |-> k - 1]
Payloads == {[ok |-> FALSE, pages |-> << >>]} \cup
            {[ok |-> TRUE, pages |-> Pages(n)] : n \in 1..MaxPages}

\* FileData.  A name is the sequence of its parts, the extension last.
FileKinds ==
    {[base64 |-> b, mimeType |-> "application/pdf", name |-> <<"report", ".pdf">>] : b \in Payloads} \cup
    {[base64 |-> [ok |-> TRUE, pages |-> Pages(MaxPages)],
      mimeType |-> "application/octet-stream", name |-> <<"REPORT", ".PDF">>]} \cup
    {[base64 |-> [ok |-> FALSE, pages |-> << >>], mimeType |-> "image/png", name |-> <<"scan", ".png">>]}

\* the documents of a multi-document request: the largest PDF, a file that is
\* no PDF, and a corrupt PDF
CompareKinds ==
    {f \in FileKinds : f.mimeType # "application/octet-stream"
                        /\ (f.base64.ok => Len(f.base64.pages) = MaxPages)}

\* the `files` argument: none, any one document, or several documents
FileLists ==
    SeqsUpTo(FileKinds, 1) \cup {fs \in SeqsUpTo(CompareKinds, MaxFiles) : Len(fs) > 1}

TextLengths == {0} \cup {k * MAX_TEXT_LENGTH + d : k \in 1..MaxTextBlocks, d \in {0, 1}}

Text(len) == [off |-> 0, len |-> len]
-----------------------------------------------------------------------------
(* Helpers of the service module *)

\* arr.slice(a, b) for 0 <= a
slice(arr, a, b) == SubSeq(arr, a + 1, Min(b, Len(arr)))

\* chunkArray: for (i = 0; i < arr.length; i += size) res.push(arr.slice(i, i + size))
RECURSIVE chunkArrayFrom(_, _, _)
chunkArrayFrom(arr, size, k) ==
    IF k < Len(arr)
    THEN << slice(arr, k, k + size) >> \o chunkArrayFrom(arr, size, k + size)
    ELSE << >>

chunkArray_fromOne(arr, size) == chunkArrayFrom(arr, size, 1)

chunkArray(arr, size) == chunkArrayFrom(arr, size, 0)

\* str.substring(a, b): both indices are clamped to [0, length] and swapped if a > b
substring(str, a, b) ==
    LET ca == Max(0, Min(a, str.len))
        cb == Max(0, Min(b, str.len))
    IN  [off |-> str.off + Min(ca, cb), len |-> Max(ca, cb) - Min(ca, cb)]

chunkString_floor(str, size) ==
    [k \in 1..(str.len \div size) |-> substring(str, (k - 1) * size, (k - 1) * size + size)]

\* chunkString: numChunks = ceil(length / size); chunks[i] = str.substring(o, o + size)
chunkString(str, size) ==
    LET numChunks == Ceil(str.len, size)
    IN  [k \in 1..numChunks |-> substring(str, (k - 1) * size, (k - 1) * size + size)]

\* name.toLowerCase(), part by part
toLowerCase(name) ==
    [k \in 1..Len(name) |-> IF name[k] = ".PDF" THEN ".pdf"
                            ELSE IF name[k] = "REPORT" THEN "report"
                            ELSE name[k]]

endsWith(name, suffix) == Len(name) > 0 /\ name[Len(name)] = suffix

\* isPdf of extractStructuredData
isPdf(file) ==
    file.mimeType = "application/pdf" \/ endsWith(toLowerCase(file.name), ".pdf")

\* PDFDocument.load(base64ToUint8Array(base64)): resolves with the document
\* or rejects with a decode error
loadFails(file) == ~ file.base64.ok

\* pdfDoc.getPageCount()
getPageCount(file) == Len(file.base64.pages)

\* Array.from({ length: totalPages }, (_, i) => i)
pageIndices(totalPages) == [k \in 1..totalPages |-> k - 1]

\* the sub-document of one chunk: copyPages(pdfDoc, chunkIndices), saveAsBase64,
\* and the temporary FileData built around it
chunkFile(singleFile, chunkIndices, idx) ==
    [base64 |-> [ok |-> TRUE,
                 pages |-> [k \in 1..Len(chunkIndices) |->
                               singleFile.base64.pages[chunkIndices[k] + 1]]],
     mimeType |-> singleFile.mimeType,
     name |-> Append(singleFile.name, "_chunk_" \o ToString(idx))]

\* Math.round(5 + ((i + 1) / n) * 90); round(x) is floor(x + 1/2).  For the chunk
\* counts of the model the floating-point product is exact at the halves
\* (n = 2, 4) and far from a half elsewhere.
percentage(idx, n) == (11 * n + 180 * (idx + 1)) \div (2 * n)

concat_prepend(agg, chunkResponse) == chunkResponse \o agg

\* aggregatedData = [...aggregatedData, ...chunkResponse]
concat(agg, chunkResponse) == agg \o chunkResponse

needsThrottle_late(idx) == idx > 1

\* if (i > 0) await delay(10000)
needsThrottle(idx) == idx > 0

\* files.length > 1
comparisonMode(fs) == Len(fs) > 1

credentialMissing_never(key) == FALSE

\* getAiClient: if (!apiKey) throw; and if (!process.env.API_KEY) of handleProcess
credentialMissing(key) == ~ key

overPageBound_atBound(totalPages) == totalPages >= MAX_PAGES_PER_CHUNK

\* totalPages > MAX_PAGES_PER_CHUNK
overPageBound(totalPages) == totalPages > MAX_PAGES_PER_CHUNK

largeText_anyFiles(fs, text) == text.len > MAX_TEXT_LENGTH

\* files.length === 0 && rawText.length > MAX_TEXT_LENGTH
largeText(fs, text) == Len(fs) = 0 /\ text.len > MAX_TEXT_LENGTH

-----------------------------------------------------------------------------
(* callGeminiExtractWithRetry: the catch block *)

isQuota(msg) ==
    includes(msg, "429") \/ includes(msg, "quota") \/ includes(msg, "limit")
        \/ includes(msg, "exceeded")

isTransient(msg) ==
    includes(msg, "500") \/ includes(msg, "503") \/ includes(msg, "xhr")
        \/ includes(msg, "fetch")

isSafety_never(msg) == FALSE

isSafety(msg) == includes(msg, "safety") \/ includes(msg, "blocked")

quotaWaitTime_noPlateau(attempt) == IF attempt = 2 THEN 60000 ELSE 30000

\* let waitTime = 30000; if (attempt === 2) waitTime = 60000; if (attempt >= 3) waitTime = 90000
quotaWaitTime(attempt) ==
    IF attempt >= 3 THEN 90000 ELSE IF attempt = 2 THEN 60000 ELSE 30000

lastAttempt_never(attempt) == FALSE

\* if (attempt === retries) throw e
lastAttempt(attempt) == attempt = retries

transientWaitTime_flat(attempt) == IF attempt >= 1 THEN 3000 ELSE 0

\* await delay(attempt * 3000)
transientWaitTime(attempt) == attempt * 3000

otherRetryable_always(attempt) == attempt < retries

\* if (attempt < 3) await delay(2000); else throw e
otherRetryable(attempt) == attempt < 3

Throw == [throw |-> TRUE, wait |-> 0]
Sleep(ms) == [throw |-> FALSE, wait |-> ms]

onError_safetyFirst(attempt, msg) ==
    IF lastAttempt(attempt) THEN Throw
    ELSE IF isSafety(msg) THEN Throw
    ELSE IF isQuota(msg) THEN Sleep(quotaWaitTime(attempt))
    ELSE IF isTransient(msg) THEN Sleep(transientWaitTime(attempt))
    ELSE IF otherRetryable(attempt) THEN Sleep(2000)
    ELSE Throw

\* what the catch block does with the error of attempt `attempt`
onError(attempt, msg) ==
    IF lastAttempt(attempt) THEN Throw
    ELSE IF isQuota(msg) THEN Sleep(quotaWaitTime(attempt))
    ELSE IF isTransient(msg) THEN Sleep(transientWaitTime(attempt))
    ELSE IF isSafety(msg) THEN Throw
    ELSE IF otherRetryable(attempt) THEN Sleep(2000)
    ELSE Throw

-----------------------------------------------------------------------------
(* State *)

NoError == [inv |-> 0, attempt |-> 0, msg |-> {}]

\* new Error("API_KEY environment variable is missing"), thrown by getAiClient
MissingKeyError == [inv |-> 0, attempt |-> 0, msg |-> {"api_key"}]

\* the error PDFDocument.load rejects with
DecodeError == [inv |-> 0, attempt |-> 0, msg |-> {"decode"}]

Pending == [state |-> "pending", value |-> << >>, error |-> NoError]
Resolved(value) == [state |-> "resolved", value |-> value, error |-> NoError]
Rejected(error) == [state |-> "rejected", value |-> << >>, error |-> error]

\* an activation of callGeminiExtractWithRetry(ai, model, prompt, rawText, files)
\*   pc       "idle", "calling" (awaiting callGeminiExtract), "backoff" (awaiting
\*            delay), "returned" or "threw"
\*   failed     history: the word classes of the error being handled
\*   sleeps     history: the backoff delays started by this activation
\*   onlyQuota  history: every failure of this activation so far contained a quota word
\*   onlySafety history: every failure of this activation so far contained a safety
\*              word and no quota or transient word
\*   waits      history: the waits of those delays in order, kept while onlyQuota
\*   onlyOther  history: every failure of this activation so far contained no
\*              quota, transient or safety word
IdleExec ==
    [pc |-> "idle", attempt |-> 0, rawText |-> Text(0), files |-> << >>,
     waitTime |-> 0, result |-> << >>, error |-> NoError,
     failed |-> NoWords, sleeps |-> 0, onlyQuota |-> TRUE, onlySafety |-> TRUE,
     waits |-> << >>, onlyOther |-> TRUE]

NewExec(text, fs) ==
    [IdleExec EXCEPT !.pc = "calling", !.attempt = 1, !.rawText = text, !.files = fs]

\* one ai.models.generateContent request of callGeminiExtract
Request(inv, attempt, text, fs) ==
    [inv |-> inv, attempt |-> attempt, rawText |-> text, files |-> fs]

\* callGeminiExtract before the oracle has answered
NotParsed == [state |-> "pending", value |-> << >>]

\* no oracle response is being handled
ParseIdle == responseText = << >> /\ parsed = NotParsed

\* no extraction request has been made
ExtractionIdle ==
    /\ files = << >>
    /\ rawText = Text(0)
    /\ pc = "start"
    /\ chunks = << >>
    /\ i = 0
    /\ aggregatedData = << >>
    /\ outcome = Pending
    /\ ex = IdleExec
    /\ inflight = {}
    /\ progress = << >>
    /\ invocations = << >>
    /\ oracleOut = << >>
    /\ thrown = << >>
    /\ retried = FALSE
    /\ chunkerRan = {}

\* AnalysisResult
AnalysisResult(summary, sentiment, keyEntities, suggestedActions, heuristicAnalysis) ==
    [summary |-> summary, sentiment |-> sentiment, keyEntities |-> keyEntities,
     suggestedActions |-> suggestedActions, heuristicAnalysis |-> heuristicAnalysis]

NoAnalysis == AnalysisResult("", "", << >>, << >>, << >>)

\* an activation of analyzeExtractedData(data)
\*   pc      "idle", "cooldown" (the delay before the deep call), "deep" and
\*           "standard" (awaiting generateContent of that tier), "fallback_wait"
\*           (the delay after the deep failure), "retry_wait" (the delay after a
\*           standard failure), "returned" or "threw"
\*   i       loop variable of the standard tier
\*   wait    the delay being awaited, in ms
\*   result  the AnalysisResult returned
\*   error   the message of the error thrown
IdleAnalyzer == [pc |-> "idle", i |-> 0, wait |-> 0, result |-> NoAnalysis, error |-> ""]

\* analyzeExtractedData has not been called; the credential is configured
AnalysisIdle ==
    /\ apiKey = TRUE
    /\ analyzer = IdleAnalyzer
    /\ analysisCalls = << >>

\* the `analysis` state of App: null, or an AnalysisResult; `from` (history)
\* is the record list it was computed from
NullAnalysis == [isNull |-> TRUE, result |-> NoAnalysis, from |-> << >>]
AnalysisOf(result, data) == [isNull |-> FALSE, result |-> result, from |-> data]

\* ProcessingStatus
Status(isProcessing, step, message, prog) ==
    [isProcessing |-> isProcessing, step |-> step, message |-> message, progress |-> prog]

\* useState<ProcessingStatus>({ isProcessing: false, step: 'idle', progress: 0 })
IdleStatus == Status(FALSE, "idle", "", 0)

\* the input form of App: the extraction goal, the pasted text and the number
\* of uploaded documents
Form(instruction, text, nFiles) == [instruction |-> instruction, rawText |-> text, files |-> nFiles]

\* useState(getStoredInstruction()), useState(""), useState<FileData[]>([])
\* when no instruction is stored: "A" stands for the default goal
DefaultForm == Form("A", "", 0)

\* localStorage without any key of the application
EmptyStorage == [history |-> << >>, data |-> << >>, analysis |-> NullAnalysis]

\* no helper function has been called on its own
NoChunker == [fn |-> "none", pc |-> "idle", str |-> [off |-> 0, len |-> 0], arr |-> << >>,
              size |-> 1, result |-> << >>]
NoneAdded == [before |-> << >>, now |-> << >>]
\* no call of the single-document extractStructuredData
NoSingle ==
    [pc |-> "idle", fileData |-> [base64 |-> [ok |-> FALSE, pages |-> << >>], mimeType |-> "", name |-> << >>],
     rawText |-> [off |-> 0, len |-> 0], i |-> 0, aggregatedData |-> << >>,
     submitted |-> << >>, progress |-> << >>, outcome |-> "pending"]

HelpersIdle == chunker = NoChunker /\ added = NoneAdded /\ single = NoSingle

\* the App component as mounted over an empty localStorage
AppIdle ==
    /\ extractedData = << >>
    /\ analysis = NullAnalysis
    /\ status = IdleStatus
    /\ history = << >>
    /\ storage = EmptyStorage
    /\ runs = << >>
    /\ form = DefaultForm

\* extractStructuredData is about to be called with its arguments
Requested ==
    /\ files \in FileLists
    /\ rawText \in {Text(len) : len \in TextLengths}
    /\ pc = "start"
    /\ chunks = << >>
    /\ i = 0
    /\ aggregatedData = << >>
    /\ outcome = Pending
    /\ ex = IdleExec
    /\ inflight = {}
    /\ progress = << >>
    /\ invocations = << >>
    /\ oracleOut = << >>
    /\ thrown = << >>
    /\ retried = FALSE
    /\ chunkerRan = {}

Init ==
    /\ ParseIdle
    /\ AnalysisIdle
    /\ AppIdle
    /\ HelpersIdle
    /\ Requested

-----------------------------------------------------------------------------
(* extractStructuredData, from one await to the next *)

awaited_not(e) == TRUE

\* `await callGeminiExtractWithRetry(...)`: the caller resumes when the
\* activation has settled
awaited(e) == e.pc \in {"returned", "threw"}

comparisonArgs_first(text, fs) == [rawText |-> text, files |-> << fs[1] >>]

\* the arguments of the Case 1 call: callGeminiExtractWithRetry(ai, model, prompt, rawText, files)
comparisonArgs(text, fs) == [rawText |-> text, files |-> fs]

pdfErrorCaught_never(err) == FALSE

\* try { ... } catch (err) { console.warn(...) } around the PDF block: whatever
\* is thrown inside is caught and the code after the block runs
pdfErrorCaught(err) == TRUE

\* the arguments of the Case 4 call: callGeminiExtractWithRetry(ai, model, prompt, rawText, files)
standardArgs(text, fs) == [rawText |-> text, files |-> fs]

\* call callGeminiExtractWithRetry(text, fs) and suspend at `label`; `thr` is
\* the throttle delay that has just elapsed before the call (0: none)
Call(label, text, fs, thr, prog, ch, idx, agg, ran) ==
    /\ pc' = label
    /\ progress' = prog
    /\ chunks' = ch
    /\ i' = idx
    /\ aggregatedData' = agg
    /\ chunkerRan' = ran
    /\ ex' = NewExec(text, fs)
    /\ inflight' = inflight \cup {Request(Len(invocations) + 1, 1, text, fs)}
    /\ invocations' = Append(invocations, [rawText |-> text, files |-> fs, throttle |-> thr])
    /\ UNCHANGED << files, rawText, outcome, oracleOut, thrown, retried >>
    /\ UNCHANGED << parseVars, analysisVars, appVars, helperVars >>

\* suspend at `label` on an await that is not an oracle call; an activation
\* of callGeminiExtractWithRetry that has settled is gone
Suspend(label, prog, ch, idx, agg, ran) ==
    /\ pc' = label
    /\ progress' = prog
    /\ chunks' = ch
    /\ i' = idx
    /\ aggregatedData' = agg
    /\ chunkerRan' = ran
    /\ ex' = IdleExec
    /\ UNCHANGED << files, rawText, outcome, inflight, invocations, oracleOut, thrown, retried >>
    /\ UNCHANGED << parseVars, analysisVars, appVars, helperVars >>

\* return or throw from extractStructuredData
Settle(o, prog, agg) ==
    /\ pc' = "done"
    /\ outcome' = o
    /\ progress' = prog
    /\ aggregatedData' = agg
    /\ ex' = IdleExec
    /\ UNCHANGED << files, rawText, chunks, i, inflight, invocations, oracleOut,
                    thrown, retried, chunkerRan >>
    /\ UNCHANGED << parseVars, analysisVars, appVars, helperVars >>

\* Case 4: onProgress(10); await callGeminiExtractWithRetry(rawText, files)
StandardExecution(prog, ch, idx, agg, ran) ==
    LET args == standardArgs(rawText, files)
    IN  Call("await_standard", args.rawText, args.files, 0, Append(prog, 10), ch, idx, agg, ran)

\* head of the text loop: for (i = 0; i < chunks.length; i++) { if (i > 0) await delay(10000); call }
TextLoop(prog, ch, idx, agg, ran) ==
    IF idx < Len(ch)
    THEN IF needsThrottle(idx)
         THEN Suspend("text_throttle", prog, ch, idx, agg, ran)
         ELSE Call("await_text", ch[idx + 1], << >>, 0, prog, ch, idx, agg, ran)
    ELSE Settle(Resolved(agg), prog, agg)

\* the code after the PDF block: Case 3, then Case 4
AfterPdfBlock(prog, ch, idx, agg, ran) ==
    IF largeText(files, rawText)
    THEN TextLoop(Append(prog, 5), chunkString(rawText, MAX_TEXT_LENGTH), 0, << >>,
                  ran \cup {"chunkString"})
    ELSE StandardExecution(prog, ch, idx, agg, ran)

\* head of the PDF loop: the sub-document of chunk idx is built (copyPages, saveAsBase64)
PdfLoop(prog, ch, idx, agg, ran) ==
    IF idx < Len(ch)
    THEN Suspend("pdf_build", prog, ch, idx, agg, ran)
    ELSE Settle(Resolved(agg), prog, agg)

\* entry of extractStructuredData up to its first await: getAiClient() throws
\* without the credential
Start ==
    /\ pc = "start"
    /\ IF credentialMissing(apiKey)
       THEN Settle(Rejected(MissingKeyError), progress, aggregatedData)
       ELSE IF comparisonMode(files)
       THEN LET args == comparisonArgs(rawText, files)
            IN  Call("await_comparison", args.rawText, args.files, 0, Append(progress, 20),
                     chunks, i, aggregatedData, chunkerRan)
       ELSE IF Len(files) = 1 /\ isPdf(files[1])
       THEN Suspend("pdf_load", Append(progress, 5), chunks, i, aggregatedData,
                    chunkerRan \cup {"load"})
       ELSE AfterPdfBlock(progress, chunks, i, aggregatedData, chunkerRan)

\* PDFDocument.load settles: decode error (caught, fall through), small
\* document (fall through) or the chunk loop
PdfLoaded ==
    /\ pc = "pdf_load"
    /\ IF loadFails(files[1])
       THEN IF pdfErrorCaught(DecodeError)
            THEN AfterPdfBlock(progress, chunks, i, aggregatedData, chunkerRan)
            ELSE Settle(Rejected(DecodeError), progress, aggregatedData)
       ELSE LET totalPages == getPageCount(files[1])
            IN  IF overPageBound(totalPages)
                THEN PdfLoop(progress,
                             chunkArray(pageIndices(totalPages), MAX_PAGES_PER_CHUNK),
                             0, << >>, chunkerRan \cup {"chunkArray"})
                ELSE AfterPdfBlock(progress, chunks, i, aggregatedData, chunkerRan)

\* the sub-document is saved: throttle, or call at once for the first chunk
PdfChunkBuilt ==
    /\ pc = "pdf_build"
    /\ IF needsThrottle(i)
       THEN Suspend("pdf_throttle", progress, chunks, i, aggregatedData, chunkerRan)
       ELSE Call("await_pdf", rawText, << chunkFile(files[1], chunks[i + 1], i) >>, 0,
                 progress, chunks, i, aggregatedData, chunkerRan)

\* delay(10000) has elapsed: the chunk call
PdfThrottled ==
    /\ pc = "pdf_throttle"
    /\ Call("await_pdf", rawText, << chunkFile(files[1], chunks[i + 1], i) >>, THROTTLE_MS,
            progress, chunks, i, aggregatedData, chunkerRan)

\* the chunk call of the PDF loop has settled; an error is caught by the
\* catch around the PDF block, and the code after the block runs
PdfChunkReturned ==
    /\ pc = "await_pdf"
    /\ awaited(ex)
    /\ IF ex.pc = "threw"
       THEN IF pdfErrorCaught(ex.error)
            THEN AfterPdfBlock(progress, chunks, i, aggregatedData, chunkerRan)
            ELSE Settle(Rejected(ex.error), progress, aggregatedData)
       ELSE PdfLoop(Append(progress, percentage(i, Len(chunks))), chunks, i + 1,
                    concat(aggregatedData, ex.result), chunkerRan)

\* delay(10000) has elapsed in the text loop: the chunk call
TextThrottled ==
    /\ pc = "text_throttle"
    /\ Call("await_text", chunks[i + 1], << >>, THROTTLE_MS,
            progress, chunks, i, aggregatedData, chunkerRan)

\* the chunk call of the text loop has settled; an error propagates
TextChunkReturned ==
    /\ pc = "await_text"
    /\ awaited(ex)
    /\ IF ex.pc = "threw"
       THEN Settle(Rejected(ex.error), progress, aggregatedData)
       ELSE TextLoop(Append(progress, percentage(i, Len(chunks))), chunks, i + 1,
                     concat(aggregatedData, ex.result), chunkerRan)

\* Case 4 call has settled: onProgress(100); return result
StandardReturned ==
    /\ pc = "await_standard"
    /\ awaited(ex)
    /\ IF ex.pc = "threw"
       THEN Settle(Rejected(ex.error), progress, aggregatedData)
       ELSE Settle(Resolved(ex.result), Append(progress, 100), aggregatedData)

\* Case 1 call has settled: return await callGeminiExtractWithRetry(...)
ComparisonReturned ==
    /\ pc = "await_comparison"
    /\ awaited(ex)
    /\ IF ex.pc = "threw"
       THEN Settle(Rejected(ex.error), progress, aggregatedData)
       ELSE Settle(Resolved(ex.result), progress, aggregatedData)

-----------------------------------------------------------------------------
(* callGeminiExtractWithRetry and the oracle *)

\* the request of the current attempt
CurrentRequest == Request(Len(invocations), ex.attempt, ex.rawText, ex.files)

\* callGeminiExtract returns a record list: return await callGeminiExtract(...)
OracleReturns ==
    /\ ex.pc = "calling"
    /\ CurrentRequest \in inflight
    /\ \E resp \in Responses(Len(invocations)) :
          /\ ex' = [ex EXCEPT !.pc = "returned", !.result = resp]
          /\ oracleOut' = Append(oracleOut, [inv |-> Len(invocations), value |-> resp])
    /\ inflight' = inflight \ {CurrentRequest}
    /\ UNCHANGED << files, rawText, pc, chunks, i, aggregatedData, outcome, progress,
                    invocations, thrown, retried, chunkerRan >>
    /\ UNCHANGED << parseVars, analysisVars, appVars, helperVars >>

\* callGeminiExtract throws: the catch block throws on or starts a backoff delay
OracleThrows ==
    /\ ex.pc = "calling"
    /\ CurrentRequest \in inflight
    /\ \E msg \in Messages :
          LET todo == onError(ex.attempt, msg)
              e == [inv |-> Len(invocations), attempt |-> ex.attempt, msg |-> msg]
              quotaRun == ex.onlyQuota /\ Mentions(msg).quota
              safetyRun == ex.onlySafety /\ SafetyClassified(Mentions(msg))
              otherRun == ex.onlyOther /\ OtherClassified(Mentions(msg))
          IN  IF todo.throw
              THEN /\ ex' = [ex EXCEPT !.pc = "threw",
                                       !.error = e,
                                       !.failed = Mentions(msg),
                                       !.onlyQuota = quotaRun,
                                       !.onlySafety = safetyRun,
                                       !.onlyOther = otherRun,
                                       !.waits = IF quotaRun THEN ex.waits ELSE << >>]
                   /\ thrown' = Append(thrown, Len(invocations))
              ELSE /\ ex' = [ex EXCEPT !.pc = "backoff",
                                       !.waitTime = todo.wait,
                                       !.failed = Mentions(msg),
                                       !.sleeps = ex.sleeps + 1,
                                       !.onlyQuota = quotaRun,
                                       !.onlySafety = safetyRun,
                                       !.onlyOther = otherRun,
                                       !.waits = IF quotaRun THEN Append(ex.waits, todo.wait)
                                                 ELSE << >>]
                   /\ thrown' = thrown
    /\ inflight' = inflight \ {CurrentRequest}
    /\ retried' = TRUE
    /\ UNCHANGED << files, rawText, pc, chunks, i, aggregatedData, outcome, progress,
                    invocations, oracleOut, chunkerRan >>
    /\ UNCHANGED << parseVars, analysisVars, appVars, helperVars >>

\* the backoff delay has elapsed: attempt++, and the next attempt if
\* attempt <= retries, else the `return []` after the loop
BackoffElapsed ==
    /\ ex.pc = "backoff"
    /\ IF ex.attempt + 1 <= retries
       THEN /\ ex' = [ex EXCEPT !.pc = "calling", !.attempt = ex.attempt + 1,
                                !.waitTime = 0, !.failed = NoWords]
            /\ inflight' = inflight \cup
                  {Request(Len(invocations), ex.attempt + 1, ex.rawText, ex.files)}
       ELSE /\ ex' = [ex EXCEPT !.pc = "returned", !.result = << >>,
                                !.waitTime = 0, !.failed = NoWords]
            /\ inflight' = inflight
    /\ UNCHANGED << files, rawText, pc, chunks, i, aggregatedData, outcome, progress,
                    invocations, oracleOut, thrown, retried, chunkerRan >>
    /\ UNCHANGED << parseVars, analysisVars, appVars, helperVars >>

-----------------------------------------------------------------------------
(* callGeminiExtract: from response.text to the record list *)

\* the lexical tokens of a response text: brackets, comma, two object
\* literals, null, a string literal, and text that is no JSON
ResponseTokens == {"[", "]", ",", "{a:1}", "{b:2}", "null", "\"x\"", "prose"}

\* the response texts of at most n tokens
Texts(n) == SeqsUpTo(ResponseTokens, n)

\* JSON values
JsonObject(key) == [type |-> "object", key |-> key, items |-> << >>]
JsonNull == [type |-> "null", key |-> "", items |-> << >>]
JsonString == [type |-> "string", key |-> "", items |-> << >>]
JsonArray(items) == [type |-> "array", key |-> "", items |-> items]

\* results of the parser: a SyntaxError, or the value read and the token after it
SyntaxError == [ok |-> FALSE, value |-> JsonNull, next |-> 0]
Parsed(v, next) == [ok |-> TRUE, value |-> v, next |-> next]

RECURSIVE parseValue(_, _)
RECURSIVE parseElements(_, _, _)

\* the JSON value that starts at token p of t
parseValue(t, p) ==
    IF p > Len(t) THEN SyntaxError
    ELSE IF t[p] = "{a:1}" THEN Parsed(JsonObject("a"), p + 1)
    ELSE IF t[p] = "{b:2}" THEN Parsed(JsonObject("b"), p + 1)
    ELSE IF t[p] = "null" THEN Parsed(JsonNull, p + 1)
    ELSE IF t[p] = "\"x\"" THEN Parsed(JsonString, p + 1)
    ELSE IF t[p] = "["
    THEN IF p + 1 <= Len(t) /\ t[p + 1] = "]"
         THEN Parsed(JsonArray(<< >>), p + 2)
         ELSE parseElements(t, p + 1, << >>)
    ELSE SyntaxError

\* the rest of an array from token p, after the elements `items`:
\* value ("," value)* "]"
parseElements(t, p, items) ==
    LET v == parseValue(t, p)
    IN  IF ~ v.ok \/ v.next > Len(t) THEN SyntaxError
        ELSE IF t[v.next] = "]" THEN Parsed(JsonArray(Append(items, v.value)), v.next + 1)
        ELSE IF t[v.next] = "," THEN parseElements(t, v.next + 1, Append(items, v.value))
        ELSE SyntaxError

\* JSON.parse(t): the whole text is one JSON value, else SyntaxError
JSONparse(t) ==
    LET r == parseValue(t, 1)
    IN  IF r.ok /\ r.next = Len(t) + 1 THEN r ELSE SyntaxError

\* text.match(/\[.*\]/s): the span from the first "[" to the last "]" after it
match(t) ==
    LET opens == {k \in 1..Len(t) : t[k] = "["}
        closes == {k \in 1..Len(t) : t[k] = "]"}
        first == CHOOSE k \in opens : \A j \in opens : k <= j
        last == CHOOSE k \in closes : \A j \in closes : k >= j
    IN  IF opens # {} /\ closes # {} /\ first < last
        THEN [found |-> TRUE, span |-> SubSeq(t, first, last)]
        ELSE [found |-> FALSE, span |-> << >>]

\* typeof v
typeof(v) == IF v.type \in {"object", "array", "null"} THEN "object" ELSE v.type

\* Array.isArray(v)
isArray(v) == v.type = "array"

\* item => item !== null && typeof item === 'object'
keepItem(item) == item.type # "null" /\ typeof(item) = "object"

wrapObject_drop(json) == SubSeq(<< json >>, 1, 0)

\* return [json]
wrapObject(json) == << json >>

Returned(value) == [state |-> "returned", value |-> value]
Threw == [state |-> "threw", value |-> << >>]

fallbackErrorCaught_never(err) == FALSE

\* try { JSON.parse(match[0]) ... } catch (err) { return []; }
fallbackErrorCaught(err) == TRUE

\* the catch block of the strict parse: the embedded-array fallback
parseFallback(t) ==
    LET m == match(t)
        inner == JSONparse(m.span)
    IN  IF m.found
        THEN IF inner.ok
             THEN IF isArray(inner.value) THEN Returned(inner.value.items)
                  ELSE Returned(<< >>)
             ELSE IF fallbackErrorCaught(inner) THEN Returned(<< >>) ELSE Threw
        ELSE Returned(<< >>)

\* callGeminiExtract from `const text = response.text` to its return
parseResponse(t) ==
    IF t = << >> THEN Returned(<< >>)
    ELSE LET json == JSONparse(t)
         IN  IF ~ json.ok THEN parseFallback(t)
             ELSE IF json.value.type = "null" THEN Returned(<< >>)
             ELSE IF isArray(json.value) THEN Returned(SelectSeq(json.value.items, keepItem))
             ELSE IF typeof(json.value) = "object" THEN Returned(wrapObject(json.value))
             ELSE Returned(<< >>)

\* the oracle has answered with responseText: the rest of callGeminiExtract runs
ResponseHandled ==
    /\ parsed.state = "pending"
    /\ parsed' = parseResponse(responseText)
    /\ UNCHANGED << responseText, extractionVars, analysisVars, appVars, helperVars >>

\* callGeminiExtract on every response text of the bound
ParseInit ==
    /\ HelpersIdle
    /\ ExtractionIdle
    /\ AnalysisIdle
    /\ AppIdle
    /\ responseText \in Texts(MaxResponseLen)
    /\ parsed = NotParsed

ParseNext == ResponseHandled

ParseSpec == ParseInit /\ [][ParseNext]_vars

-----------------------------------------------------------------------------
(* analyzeExtractedData *)

\* how one generateContent call of the analysis ends: with a response whose
\* text parses ("ok"), is empty ("empty") or does not parse ("unparseable"), or
\* with an exception ("throws"); has429: the message of the error (the
\* exception, or the SyntaxError of JSON.parse, which quotes the text)
\* contains '429'
AnalysisOutcomes ==
    {[kind |-> "ok", has429 |-> FALSE], [kind |-> "empty", has429 |-> FALSE]} \cup
    {[kind |-> k, has429 |-> q] : k \in {"unparseable", "throws"}, q \in BOOLEAN}

\* JSON.parse(response.text) as AnalysisResult, for the texts the oracle sends
OracleAnalyses ==
    {AnalysisResult("insights", s, << "entity" >>, << "action" >>, << >>) :
        s \in {"positive", "neutral", "negative"}}

\* the object returned after both tiers
Placeholder ==
    AnalysisResult("Analysis failed due to persistent high API traffic. Data extraction is complete and available below.",
                   "neutral", << >>,
                   << "Export data to Excel for manual analysis" >>,
                   << "AI Analysis service temporarily unavailable." >>)

\* the deep call fails: a response with text that parses is the only success;
\* an empty text throws Error("Empty response from Pro") inside the try
deepFailed(o) == o.kind # "ok"

\* if (msg.includes('429')) await delay(15000); else await delay(2000);
fallbackDelay(o) == IF o.has429 THEN 15000 ELSE 2000

\* the standard call throws inside its try: an exception of the oracle or the
\* SyntaxError of JSON.parse; an empty text throws nothing
standardThrows(o) == o.kind \in {"throws", "unparseable"}

\* if (flashMsg.includes('429')) await delay(30000); else await delay(5000);
retryDelay(o) == IF o.has429 THEN 30000 ELSE 5000

moreStandard_four(k) == k < 4

\* for (let i = 0; i < 3; i++)
moreStandard(k) == k < 3

\* one generateContent call of the analysis: its tier, the delay slept right
\* before it, and how it ended (kind "pending" while in flight)
AnalysisCall(tier, waited) ==
    [tier |-> tier, waited |-> waited, outcome |-> [kind |-> "pending", has429 |-> FALSE]]

Answered(calls, o) == [calls EXCEPT ![Len(calls)].outcome = o]

afterLoop_throw(a) == [a EXCEPT !.pc = "threw", !.error = "Analysis failed after retries"]

\* the return after the try/catch: the placeholder
afterLoop(a) == [a EXCEPT !.pc = "returned", !.result = Placeholder]

\* head of the standard loop with loop variable k, after a delay of `waited` ms
StandardLoop(k, waited, calls) ==
    IF moreStandard(k)
    THEN /\ analyzer' = [analyzer EXCEPT !.pc = "standard", !.i = k, !.wait = 0]
         /\ analysisCalls' = Append(calls, AnalysisCall("standard", waited))
    ELSE /\ analyzer' = afterLoop([analyzer EXCEPT !.i = k, !.wait = 0])
         /\ analysisCalls' = calls

\* entry: getAiClient() throws without the credential; else await delay(2000)
AnalyzeStart ==
    /\ analyzer.pc = "idle"
    /\ IF credentialMissing(apiKey)
       THEN analyzer' = [analyzer EXCEPT !.pc = "threw",
                                         !.error = "API_KEY environment variable is missing"]
       ELSE analyzer' = [analyzer EXCEPT !.pc = "cooldown", !.wait = 2000]
    /\ UNCHANGED << apiKey, analysisCalls, extractionVars, parseVars, appVars, helperVars >>

\* delay(2000) has elapsed: the deep call
CooldownElapsed ==
    /\ analyzer.pc = "cooldown"
    /\ analyzer' = [analyzer EXCEPT !.pc = "deep", !.wait = 0]
    /\ analysisCalls' = Append(analysisCalls, AnalysisCall("deep", analyzer.wait))
    /\ UNCHANGED << apiKey, extractionVars, parseVars, appVars, helperVars >>

\* the deep call settles: return the parsed result, or catch and delay
DeepAnswers ==
    /\ analyzer.pc = "deep"
    /\ \E o \in AnalysisOutcomes :
          /\ analysisCalls' = Answered(analysisCalls, o)
          /\ IF deepFailed(o)
             THEN analyzer' = [analyzer EXCEPT !.pc = "fallback_wait", !.wait = fallbackDelay(o)]
             ELSE \E r \in OracleAnalyses :
                     analyzer' = [analyzer EXCEPT !.pc = "returned", !.result = r]
    /\ UNCHANGED << apiKey, extractionVars, parseVars, appVars, helperVars >>

\* the delay of the catch block has elapsed: the standard loop starts
FallbackElapsed ==
    /\ analyzer.pc = "fallback_wait"
    /\ StandardLoop(0, analyzer.wait, analysisCalls)
    /\ UNCHANGED << apiKey, extractionVars, parseVars, appVars, helperVars >>

\* a standard call settles: return the parsed result, catch and delay, or
\* (empty text) go on to the next iteration at once
StandardAnswers ==
    /\ analyzer.pc = "standard"
    /\ \E o \in AnalysisOutcomes :
          IF o.kind = "ok"
          THEN /\ analysisCalls' = Answered(analysisCalls, o)
               /\ \E r \in OracleAnalyses :
                     analyzer' = [analyzer EXCEPT !.pc = "returned", !.result = r]
          ELSE IF standardThrows(o)
          THEN /\ analysisCalls' = Answered(analysisCalls, o)
               /\ analyzer' = [analyzer EXCEPT !.pc = "retry_wait", !.wait = retryDelay(o)]
          ELSE StandardLoop(analyzer.i + 1, 0, Answered(analysisCalls, o))
    /\ UNCHANGED << apiKey, extractionVars, parseVars, appVars, helperVars >>

\* the delay of the inner catch block has elapsed: i++ and the loop test
RetryElapsed ==
    /\ analyzer.pc = "retry_wait"
    /\ StandardLoop(analyzer.i + 1, analyzer.wait, analysisCalls)
    /\ UNCHANGED << apiKey, extractionVars, parseVars, appVars, helperVars >>

\* one analysis, with or without the credential
AnalysisInit ==
    /\ HelpersIdle
    /\ ExtractionIdle
    /\ ParseIdle
    /\ AppIdle
    /\ apiKey \in BOOLEAN
    /\ analyzer = IdleAnalyzer
    /\ analysisCalls = << >>

AnalysisNext ==
    \/ AnalyzeStart
    \/ CooldownElapsed
    \/ DeepAnswers
    \/ FallbackElapsed
    \/ StandardAnswers
    \/ RetryElapsed

AnalysisSpec == AnalysisInit /\ [][AnalysisNext]_vars

-----------------------------------------------------------------------------
(* utils/storage *)

\* str.trim(), for the strings of the model
trim(str) == IF str \in {"", "  "} THEN "" ELSE str

addToInstructionHistory_noFilter(instruction, stored) ==
    IF trim(instruction) = ""
    THEN [returned |-> << >>, stored |-> stored]
    ELSE [returned |-> slice(<< instruction >> \o stored, 0, HISTORY_LIMIT),
          stored |-> slice(<< instruction >> \o stored, 0, HISTORY_LIMIT)]

\* addToInstructionHistory(instruction) over the stored history: the list it
\* returns and the list it leaves in localStorage
addToInstructionHistory(instruction, stored) ==
    IF trim(instruction) = ""
    THEN [returned |-> << >>, stored |-> stored]
    ELSE LET newHistory ==
                 slice(<< instruction >> \o SelectSeq(stored, LAMBDA h : h # instruction),
                       0, HISTORY_LIMIT)
         IN  [returned |-> newHistory, stored |-> newHistory]

\* saveExtractionSession(data, analysis): the analysis key is written only
\* for a non-null analysis
saveExtractionSession(store, data, an) ==
    [store EXCEPT !.data = data, !.analysis = IF an.isNull THEN @ ELSE an]

\* loadExtractionSession()
loadExtractionSession(store) == [data |-> store.data, analysis |-> store.analysis]

-----------------------------------------------------------------------------
(* App: handleProcess and handleReAnalyze, from one await to the next *)

\* what the user has in the form when Extract is clicked
Instructions == {"  ", "A"}
RawTexts == {"", "text"}
FileCounts == {0, 1}

\* the values extractStructuredData passes to onProgress
ProgressTicks == {10, 100}

\* the errors extractStructuredData and analyzeExtractedData reject with, as
\* the pattern words of their messages
AppErrors == {{"429"}, {"blocked"}}

\* what analyzeExtractedData resolves with
AnalysisResults == {Placeholder} \cup {r \in OracleAnalyses : r.sentiment = "positive"}

\* the records a previous session left in localStorage
StoredRecords == [k \in 1..MaxRecs |-> [from |-> 0, k |-> k]]

\* localStorage when the page is loaded: empty, or the last session without
\* or with its analysis
StoredSessions ==
    {EmptyStorage,
     [history |-> << "A" >>, data |-> StoredRecords, analysis |-> NullAnalysis],
     [history |-> << "A" >>, data |-> StoredRecords,
      analysis |-> AnalysisOf(Placeholder, StoredRecords)]}

\* getFriendlyErrorMessage(error)
getFriendlyErrorMessage(msg, online) ==
    IF ~ online THEN "You are offline."
    ELSE IF includes(msg, "401") \/ includes(msg, "api key") THEN "Authentication failed."
    ELSE IF includes(msg, "429") \/ includes(msg, "quota") \/ includes(msg, "limit")
              \/ includes(msg, "exceeded") THEN "Usage limit exceeded."
    ELSE IF includes(msg, "503") \/ includes(msg, "overloaded") THEN "High traffic."
    ELSE IF includes(msg, "safety") \/ includes(msg, "blocked") THEN "Flagged by safety filters."
    ELSE IF includes(msg, "json") \/ includes(msg, "parse") THEN "Wrong format."
    ELSE IF includes(msg, "fetch") \/ includes(msg, "network") THEN "Network error."
    ELSE "An unexpected error occurred."

ErrorStatus_complete(message) == Status(FALSE, "complete", message, 0)

\* setStatus({ isProcessing: false, step: 'error', message, progress: 0 })
ErrorStatus(message) == Status(FALSE, "error", message, 0)

validateInput_lax(isOnline, instruction, text, nFiles) == [ok |-> TRUE, status |-> status]

\* validateInput(): the error status it sets, or ok
validateInput(isOnline, instruction, text, nFiles) ==
    IF ~ isOnline THEN [ok |-> FALSE, status |-> ErrorStatus("Offline Mode")]
    ELSE IF trim(instruction) = ""
    THEN [ok |-> FALSE, status |-> ErrorStatus("Please provide an extraction/comparison goal.")]
    ELSE IF trim(text) = "" /\ nFiles = 0
    THEN [ok |-> FALSE, status |-> ErrorStatus("Please upload files or paste text content to process.")]
    ELSE [ok |-> TRUE, status |-> status]

\* an activation of handleProcess ("process") or handleReAnalyze ("reanalyze"):
\*   pc    "extracting" (awaiting extractStructuredData), "analyzing" (awaiting
\*         analyzeExtractedData) or "done"
\*   data  the local `data` of handleProcess once extraction has returned;
\*         the `extractedData` of the render handleReAnalyze was created in
Run(kind, at, data) == [kind |-> kind, pc |-> at, data |-> data]

\* the catch blocks of handleProcess and handleReAnalyze set the status and
\* nothing else: extractedData keeps its value
caughtRecords(current) == current

\* the Extract button is clicked: handleProcess up to `await extractStructuredData`
ClickProcess ==
    /\ ~ status.isProcessing
    /\ Len(runs) < MaxRuns
    /\ \E isOnline \in BOOLEAN :
          LET valid == validateInput(isOnline, form.instruction, form.rawText, form.files)
              saved == addToInstructionHistory(form.instruction, storage.history)
          IN  IF credentialMissing(apiKey)
              THEN /\ status' = ErrorStatus("API Key is missing. Please configure your environment.")
                   /\ UNCHANGED << extractedData, analysis, history, storage, runs >>
              ELSE IF ~ valid.ok
              THEN /\ status' = valid.status
                   /\ UNCHANGED << extractedData, analysis, history, storage, runs >>
              ELSE /\ history' = saved.returned
                   /\ storage' = [storage EXCEPT !.history = saved.stored]
                   /\ status' = Status(TRUE, "extracting", "Initializing...", 0)
                   /\ extractedData' = << >>
                   /\ analysis' = NullAnalysis
                   /\ runs' = Append(runs, Run("process", "extracting", << >>))
    /\ UNCHANGED form
    /\ UNCHANGED << extractionVars, parseVars, analysisVars, helperVars >>

\* onProgress: setStatus(prev => ({ ...prev, progress, message }))
ProgressReported ==
    /\ \E r \in 1..Len(runs) : runs[r].kind = "process" /\ runs[r].pc = "extracting"
    /\ \E p \in ProgressTicks :
          status' = [status EXCEPT !.progress = p, !.message = "Processing data..."]
    /\ UNCHANGED << extractedData, analysis, history, storage, runs, form >>
    /\ UNCHANGED << extractionVars, parseVars, analysisVars, helperVars >>

\* extractStructuredData settles in handleProcess: store and save the records,
\* then start the analysis, report that nothing was found, or catch the error
ExtractionSettles ==
    /\ \E r \in 1..Len(runs) :
          /\ runs[r].kind = "process" /\ runs[r].pc = "extracting"
          /\ \/ \E data \in Responses(r) :
                   /\ extractedData' = data
                   /\ storage' = saveExtractionSession(storage, data, NullAnalysis)
                   /\ IF Len(data) > 0
                      THEN /\ status' = Status(TRUE, "analyzing",
                                               "Deep thinking analysis in progress...", 100)
                           /\ runs' = [runs EXCEPT ![r] = Run("process", "analyzing", data)]
                      ELSE /\ status' = ErrorStatus("No relevant data found matching your criteria.")
                           /\ runs' = [runs EXCEPT ![r] = Run("process", "done", data)]
             \/ \E msg \in AppErrors, online \in BOOLEAN :
                   /\ status' = ErrorStatus(getFriendlyErrorMessage(msg, online))
                   /\ runs' = [runs EXCEPT ![r] = Run("process", "done", << >>)]
                   /\ UNCHANGED << extractedData, storage >>
    /\ UNCHANGED << analysis, history, form >>
    /\ UNCHANGED << extractionVars, parseVars, analysisVars, helperVars >>

\* analyzeExtractedData settles in handleProcess: store and save the analysis,
\* or catch the error
AnalysisSettles ==
    /\ \E r \in 1..Len(runs) :
          /\ runs[r].kind = "process" /\ runs[r].pc = "analyzing"
          /\ runs' = [runs EXCEPT ![r].pc = "done"]
          /\ \/ \E result \in AnalysisResults :
                   /\ analysis' = AnalysisOf(result, runs[r].data)
                   /\ storage' = saveExtractionSession(storage, runs[r].data,
                                                        AnalysisOf(result, runs[r].data))
                   /\ status' = Status(FALSE, "complete", "", 100)
                   /\ extractedData' = extractedData
             \/ \E msg \in AppErrors, online \in BOOLEAN :
                   /\ status' = ErrorStatus(getFriendlyErrorMessage(msg, online))
                   /\ extractedData' = caughtRecords(extractedData)
                   /\ UNCHANGED << analysis, storage >>
    /\ UNCHANGED << history, form >>
    /\ UNCHANGED << extractionVars, parseVars, analysisVars, helperVars >>

\* Analyze Data / Regenerate is clicked in ResultsView (rendered while
\* extractedData is not empty): handleReAnalyze up to `await analyzeExtractedData`
ClickReAnalyze ==
    /\ Len(extractedData) > 0
    /\ Len(runs) < MaxRuns
    /\ \E isOnline \in BOOLEAN :
          IF Len(extractedData) = 0 \/ ~ isOnline
          THEN UNCHANGED << status, analysis, runs >>
          ELSE /\ status' = Status(TRUE, "analyzing", "Re-analyzing extracted data...", 100)
               /\ analysis' = NullAnalysis
               /\ runs' = Append(runs, Run("reanalyze", "analyzing", extractedData))
    /\ UNCHANGED << extractedData, history, storage, form >>
    /\ UNCHANGED << extractionVars, parseVars, analysisVars, helperVars >>

\* analyzeExtractedData settles in handleReAnalyze
ReAnalysisSettles ==
    /\ \E r \in 1..Len(runs) :
          /\ runs[r].kind = "reanalyze" /\ runs[r].pc = "analyzing"
          /\ runs' = [runs EXCEPT ![r].pc = "done"]
          /\ \/ /\ apiKey
                /\ \E result \in AnalysisResults :
                      /\ analysis' = AnalysisOf(result, runs[r].data)
                      /\ storage' = saveExtractionSession(storage, runs[r].data,
                                                           AnalysisOf(result, runs[r].data))
                      /\ status' = Status(FALSE, "complete", "", 100)
                      /\ extractedData' = extractedData
             \/ \E msg \in AppErrors, online \in BOOLEAN :
                   /\ status' = ErrorStatus(getFriendlyErrorMessage(msg, online))
                   /\ extractedData' = caughtRecords(extractedData)
                   /\ UNCHANGED << analysis, storage >>
    /\ UNCHANGED << history, form >>
    /\ UNCHANGED << extractionVars, parseVars, analysisVars, helperVars >>

\* the user edits the goal (setInstruction), the pasted text (setRawText) or
\* the documents (setFiles): the inputs stay editable while a request is processing
EditForm ==
    /\ \/ \E instruction \in Instructions \ {form.instruction} :
             form' = [form EXCEPT !.instruction = instruction]
       \/ \E text \in RawTexts \ {form.rawText} :
             form' = [form EXCEPT !.rawText = text]
       \/ \E nFiles \in FileCounts \ {form.files} :
             form' = [form EXCEPT !.files = nFiles]
    /\ UNCHANGED << extractedData, analysis, status, history, storage, runs >>
    /\ UNCHANGED << extractionVars, parseVars, analysisVars, helperVars >>

\* the App component mounts: history and the last session are loaded
Mounted ==
    /\ storage \in StoredSessions
    /\ history = storage.history
    /\ LET session == loadExtractionSession(storage)
       IN  IF Len(session.data) > 0
           THEN extractedData = session.data /\ analysis = session.analysis
           ELSE extractedData = << >> /\ analysis = NullAnalysis
    /\ status = IdleStatus
    /\ runs = << >>
    /\ form = DefaultForm

AppInit ==
    /\ HelpersIdle
    /\ ExtractionIdle
    /\ ParseIdle
    /\ apiKey \in BOOLEAN
    /\ analyzer = IdleAnalyzer
    /\ analysisCalls = << >>
    /\ Mounted

AppNext ==
    \/ EditForm
    \/ ClickProcess
    \/ ProgressReported
    \/ ExtractionSettles
    \/ AnalysisSettles
    \/ ClickReAnalyze
    \/ ReAnalysisSettles

AppSpec == AppInit /\ [][AppNext]_vars

-----------------------------------------------------------------------------
(* chunkString and chunkArray, called on their own *)

\* a call chunkString(str, size) or chunkArray(arr, size) that has not returned
ChunkerCall(fn, str, arr, size) ==
    [fn |-> fn, pc |-> "called", str |-> str, arr |-> arr, size |-> size, result |-> << >>]

\* the calls: every text length and every page count up to MaxChunkInput,
\* every chunk size from 1 to MaxChunkSize
ChunkerCalls ==
    {ChunkerCall("chunkString", Text(len), << >>, size) :
        len \in 0..MaxChunkInput, size \in 1..MaxChunkSize} \cup
    {ChunkerCall("chunkArray", Text(0), pageIndices(totalPages), size) :
        totalPages \in 0..MaxChunkInput, size \in 1..MaxChunkSize}

ChunkStringReturns ==
    /\ chunker.fn = "chunkString" /\ chunker.pc = "called"
    /\ chunker' = [chunker EXCEPT !.pc = "returned",
                                  !.result = chunkString(chunker.str, chunker.size)]
    /\ UNCHANGED << added, single, extractionVars, parseVars, analysisVars, appVars >>

ChunkArrayReturns ==
    /\ chunker.fn = "chunkArray" /\ chunker.pc = "called"
    /\ chunker' = [chunker EXCEPT !.pc = "returned",
                                  !.result = chunkArray(chunker.arr, chunker.size)]
    /\ UNCHANGED << added, single, extractionVars, parseVars, analysisVars, appVars >>

ChunkerInit ==
    /\ ExtractionIdle
    /\ ParseIdle
    /\ AnalysisIdle
    /\ AppIdle
    /\ added = NoneAdded
    /\ single = NoSingle
    /\ chunker \in ChunkerCalls

ChunkerNext == ChunkStringReturns \/ ChunkArrayReturns

ChunkerSpec == ChunkerInit /\ [][ChunkerNext]_vars

-----------------------------------------------------------------------------
(* addToInstructionHistory, called again and again *)

\* the extraction goals: MaxInstructions different non-blank strings
Goal(k) == "goal " \o ToString(k)
Goals == {Goal(k) : k \in 1..MaxInstructions}

\* localStorage HISTORY after addToInstructionHistory was called with the
\* instructions of seq, in order, over an empty storage
RECURSIVE StoredAfter(_)
StoredAfter(seq) ==
    IF seq = << >> THEN << >>
    ELSE addToInstructionHistory(seq[Len(seq)], StoredAfter(SubSeq(seq, 1, Len(seq) - 1))).stored

\* the calls of earlier sessions: the first n goals, one after the other
Earlier(n) == [k \in 1..n |-> Goal(k)]

\* the page is loaded over the history that earlier sessions left
HistoryInit ==
    /\ ExtractionIdle
    /\ ParseIdle
    /\ AnalysisIdle
    /\ chunker = NoChunker
    /\ single = NoSingle
    /\ \E n \in 0..Min(HISTORY_LIMIT, MaxInstructions) :
          /\ added = [before |-> Earlier(n), now |-> << >>]
          /\ storage = [EmptyStorage EXCEPT !.history = StoredAfter(Earlier(n))]
    /\ history = storage.history
    /\ extractedData = << >>
    /\ analysis = NullAnalysis
    /\ status = IdleStatus
    /\ runs = << >>
    /\ form = DefaultForm

\* const newHistory = addToInstructionHistory(instruction); setHistory(newHistory)
HistoryAdded ==
    /\ Len(added.now) < MaxAdds
    /\ \E instruction \in Goals :
          LET saved == addToInstructionHistory(instruction, storage.history)
          IN  /\ storage' = [storage EXCEPT !.history = saved.stored]
              /\ history' = saved.returned
              /\ added' = [added EXCEPT !.now = Append(@, instruction)]
    /\ UNCHANGED << extractedData, analysis, status, runs, form, chunker, single >>
    /\ UNCHANGED << extractionVars, parseVars, analysisVars >>

HistoryNext == HistoryAdded

HistorySpec == HistoryInit /\ [][HistoryNext]_vars

-----------------------------------------------------------------------------
(* extractStructuredData of the single-document revision (services/gemini.ts),
   called with a document; callGeminiExtractWithRetry resolves or throws *)

\* { ...fileData, base64: subDocBase64, mimeType: 'application/pdf' }
chunkFileData(fileData, chunkIndices) ==
    [fileData EXCEPT !.base64 = [ok |-> TRUE,
                                 pages |-> [k \in 1..Len(chunkIndices) |->
                                               fileData.base64.pages[chunkIndices[k] + 1]]],
                     !.mimeType = "application/pdf"]

\* chunkArray(pageIndices, MAX_PAGES_PER_CHUNK) of the document of the call
singlePageChunks ==
    chunkArray(pageIndices(getPageCount(single.fileData)), MAX_PAGES_PER_CHUNK)

\* the arguments rawText and fileData of a callGeminiExtractWithRetry call
Submitted(text, fileData) == [rawText |-> text, fileData |-> fileData]

\* isPdf, onProgress(5), PDFDocument.load and the page count; a load that
\* rejects is caught and the standard execution follows
SinglePdfChecked ==
    /\ single.pc = "start"
    /\ single' =
          IF ~ isPdf(single.fileData) THEN [single EXCEPT !.pc = "standard"]
          ELSE IF loadFails(single.fileData)
               THEN [single EXCEPT !.pc = "standard", !.progress = Append(@, 5)]
          ELSE IF getPageCount(single.fileData) > MAX_PAGES_PER_CHUNK
               THEN [single EXCEPT !.pc = "chunk", !.i = 0, !.progress = Append(@, 5)]
          ELSE [single EXCEPT !.pc = "standard", !.progress = Append(@, 5)]
    /\ UNCHANGED << chunker, added, extractionVars, parseVars, analysisVars, appVars >>

\* await delay(10000) before every chunk but the first
SingleThrottled ==
    /\ single.pc = "throttle"
    /\ single' = [single EXCEPT !.pc = "chunk"]
    /\ UNCHANGED << chunker, added, extractionVars, parseVars, analysisVars, appVars >>

\* the call for chunk i settles: its records are appended and the progress
\* reported, or it throws into the catch around the loop and the standard
\* execution follows
SingleChunkSettles ==
    /\ single.pc = "chunk"
    /\ LET n == Len(singlePageChunks)
           sent == Append(single.submitted,
                          Submitted(single.rawText,
                                    chunkFileData(single.fileData, singlePageChunks[single.i + 1])))
       IN  \/ \E chunkResponse \in Responses(Len(sent)) :
                 single' = [single EXCEPT
                               !.submitted = sent,
                               !.aggregatedData = @ \o chunkResponse,
                               !.progress = Append(@, percentage(single.i, n)),
                               !.i = @ + 1,
                               !.pc = IF single.i + 1 < n THEN "throttle" ELSE "done",
                               !.outcome = IF single.i + 1 < n THEN "pending" ELSE "resolved"]
           \/ single' = [single EXCEPT !.submitted = sent,
                                       !.aggregatedData = << >>,
                                       !.pc = "standard"]
    /\ UNCHANGED << chunker, added, extractionVars, parseVars, analysisVars, appVars >>

\* onProgress(10), the call with the document as it was passed, onProgress(100)
SingleStandardSettles ==
    /\ single.pc = "standard"
    /\ LET sent == Append(single.submitted, Submitted(single.rawText, single.fileData))
       IN  \/ \E result \in Responses(Len(sent)) :
                 single' = [single EXCEPT !.submitted = sent,
                                          !.aggregatedData = result,
                                          !.progress = @ \o << 10, 100 >>,
                                          !.pc = "done",
                                          !.outcome = "resolved"]
           \/ single' = [single EXCEPT !.submitted = sent,
                                       !.progress = Append(@, 10),
                                       !.pc = "done",
                                       !.outcome = "rejected"]
    /\ UNCHANGED << chunker, added, extractionVars, parseVars, analysisVars, appVars >>

\* a call with any one document and any raw text
SingleInit ==
    /\ ExtractionIdle
    /\ ParseIdle
    /\ AnalysisIdle
    /\ AppIdle
    /\ chunker = NoChunker
    /\ added = NoneAdded
    /\ \E fileData \in FileKinds, len \in TextLengths :
          single = [NoSingle EXCEPT !.pc = "start", !.fileData = fileData, !.rawText = Text(len)]

SingleNext ==
    \/ SinglePdfChecked
    \/ SingleThrottled
    \/ SingleChunkSettles
    \/ SingleStandardSettles

SingleFileSpec == SingleInit /\ [][SingleNext]_vars

-----------------------------------------------------------------------------

Next ==
    \/ Start
    \/ PdfLoaded
    \/ PdfChunkBuilt
    \/ PdfThrottled
    \/ PdfChunkReturned
    \/ TextThrottled
    \/ TextChunkReturned
    \/ StandardReturned
    \/ ComparisonReturned
    \/ OracleReturns
    \/ OracleThrows
    \/ BackoffElapsed

Spec == Init /\ [][Next]_vars

\* the three entry points (extractStructuredData, analyzeExtractedData, the
\* Extract and Analyze buttons of App) in a build without process.env.API_KEY
MissingCredentialInit ==
    /\ HelpersIdle
    /\ apiKey = FALSE
    /\ analyzer = IdleAnalyzer
    /\ analysisCalls = << >>
    /\ ParseIdle
    /\ \/ Requested /\ AppIdle
       \/ ExtractionIdle /\ Mounted

\* the steps that start a request, and those of handleReAnalyze, which does
\* not test the credential itself
MissingCredentialNext ==
    \/ Start
    \/ AnalyzeStart
    \/ EditForm
    \/ ClickProcess
    \/ ClickReAnalyze
    \/ ReAnalysisSettles

\* the steps of a request in progress
InProgressNext ==
    \/ PdfLoaded
    \/ PdfChunkBuilt
    \/ PdfThrottled
    \/ PdfChunkReturned
    \/ TextThrottled
    \/ TextChunkReturned
    \/ StandardReturned
    \/ ComparisonReturned
    \/ OracleReturns
    \/ OracleThrows
    \/ BackoffElapsed
    \/ CooldownElapsed
    \/ DeepAnswers
    \/ FallbackElapsed
    \/ StandardAnswers
    \/ RetryElapsed
    \/ ProgressReported
    \/ ExtractionSettles
    \/ AnalysisSettles

MissingCredentialSpec == MissingCredentialInit /\ [][MissingCredentialNext]_vars
\* the same system when every suspended step is eventually resumed: the
\* oracle answers every request, every timer fires, every continuation runs
FairSpec == Spec /\ WF_vars(Next)

-----------------------------------------------------------------------------
(* Properties *)

\* a single PDF whose page count exceeds the page bound
PdfOverBound ==
    /\ Len(files) = 1
    /\ files[1].mimeType = "application/pdf" \/ files[1].name \in {<<"report", ".pdf">>, <<"REPORT", ".PDF">>}
    /\ files[1].base64.ok
    /\ Len(files[1].base64.pages) > MAX_PAGES_PER_CHUNK

\* no documents and raw text longer than the character bound
TextOverBound == Len(files) = 0 /\ rawText.len > MAX_TEXT_LENGTH

ChunkedMode == PdfOverBound \/ TextOverBound

\* a single PDF that cannot be decoded
PdfCorrupt ==
    /\ Len(files) = 1
    /\ files[1].mimeType = "application/pdf" \/ files[1].name \in {<<"report", ".pdf">>, <<"REPORT", ".PDF">>}
    /\ ~ files[1].base64.ok

Awaiting == {"await_pdf", "await_text", "await_standard", "await_comparison"}

\* the concatenation of the record lists of `answers`, first answer first
RECURSIVE Flatten(_)
Flatten(answers) ==
    IF answers = << >> THEN << >>
    ELSE Head(answers).value \o Flatten(Tail(answers))

\* C1: in chunked mode, once callGeminiExtractWithRetry has failed on a chunk no
\* further oracle call is submitted, the request rejects with that error, and
\* it never returns a record list.
C1_NoCallAfterChunkFailure ==
    (ChunkedMode /\ thrown # << >>) =>
        /\ Len(invocations) = thrown[1]
        /\ inflight = {}
        /\ outcome.state # "resolved"
        /\ pc = "done" => (outcome.state = "rejected" /\ outcome.error.inv = thrown[1])

\* C2: the values passed to onProgress during one call are integers of 0..100
\* and never decrease.
C2_ProgressMonotone ==
    \A k \in 1..Len(progress) :
        /\ progress[k] \in 0..100
        /\ k > 1 => progress[k - 1] <= progress[k]

\* C3: at most one oracle call is in flight, it belongs to the latest
\* invocation of callGeminiExtractWithRetry, and that invocation starts only
\* when every earlier one has settled; while an invocation runs (its retries
\* and backoff sleeps included) extractStructuredData stays at its await.
C3_OneCallInFlight ==
    /\ Cardinality(inflight) <= 1
    /\ \A r \in inflight :
          r.inv = Len(invocations) /\ r.attempt = ex.attempt /\ ex.pc = "calling"
    /\ Len(invocations) <= Len(oracleOut) + Len(thrown) + 1
    /\ ex.pc \in {"calling", "backoff"} =>
          (pc \in Awaiting /\ Len(invocations) = Len(oracleOut) + Len(thrown) + 1)
    /\ ex.pc = "backoff" => inflight = {}

C3_Witness ==
    /\ ChunkedMode
    /\ Len(invocations) >= 2
    /\ Len(oracleOut) >= 1
    /\ ex.attempt >= 2
    /\ inflight # {}

\* C4: when every chunk call succeeds the returned list is the concatenation
\* of the chunk results in submission order, each in the oracle's order:
\* nothing dropped, duplicated or reordered.
C4_Concatenation ==
    (ChunkedMode /\ thrown = << >> /\ pc = "done") =>
        /\ outcome = Resolved(Flatten(oracleOut))
        /\ Len(oracleOut) = Len(chunks)
        /\ \A k \in 1..Len(oracleOut) : oracleOut[k].inv = k
        /\ \A a, b \in 1..Len(outcome.value) :
              a < b =>
                 \/ outcome.value[a].from < outcome.value[b].from
                 \/ /\ outcome.value[a].from = outcome.value[b].from
                    /\ outcome.value[a].k < outcome.value[b].k

C4_Witness ==
    /\ ChunkedMode
    /\ thrown = << >>
    /\ pc = "done"
    /\ retried
    /\ \A k \in 1..Len(oracleOut) : Len(oracleOut[k].value) = MaxRecs
    /\ Len(outcome.value) >= 2 * MaxRecs

\* C5: a PDF of P > B pages whose oracle calls all succeed at the first
\* attempt gets ceil(P/B) oracle calls, chunk k carrying pages (k-1)B .. kB-1
\* in order, with the throttle delay before every call but the first.
C5_PdfChunkCalls ==
    (PdfOverBound /\ ~ retried) =>
        LET P == Len(files[1].base64.pages)
            B == MAX_PAGES_PER_CHUNK
            n == Ceil(P, B)
        IN  /\ Len(invocations) <= n
            /\ Len(oracleOut) <= Len(invocations)
            /\ pc = "done" => (Len(invocations) = n /\ Len(oracleOut) = n)
            /\ \A k \in 1..Len(invocations) :
                  /\ Len(invocations[k].files) = 1
                  /\ invocations[k].files[1].base64.pages =
                        [j \in 1..(Min(k * B, P) - (k - 1) * B) |-> (k - 1) * B + j - 1]
                  /\ invocations[k].throttle = IF k = 1 THEN 0 ELSE THROTTLE_MS

C5_Witness ==
    /\ PdfOverBound
    /\ Len(files[1].base64.pages) = MaxPages
    /\ ~ retried
    /\ pc = "done"
    /\ outcome.state = "resolved"

\* C6 as stated: two or more documents are never chunked and the request
\* results in exactly one oracle call, carrying all the documents.
C6_ExactlyOneOracleCall ==
    (Len(files) > 1 /\ pc # "start") =>
        /\ chunkerRan = {}
        /\ Len(invocations) = 1
        /\ invocations[1].files = files
        /\ pc = "await_comparison" => ex.attempt = 1

\* C6 amended: two or more documents are never chunked and the request makes
\* exactly one invocation of callGeminiExtractWithRetry; every oracle call of
\* it (one when the first attempt succeeds, at most `retries`) carries all the
\* documents and the whole raw text.
C6_OneInvocation ==
    (Len(files) > 1 /\ pc # "start") =>
        /\ chunkerRan = {}
        /\ chunks = << >>
        /\ Len(invocations) = 1
        /\ invocations[1] = [rawText |-> rawText, files |-> files, throttle |-> 0]
        /\ \A r \in inflight : r.files = files /\ r.rawText = rawText /\ r.inv = 1
        /\ pc = "await_comparison" =>
              /\ ex.files = files
              /\ ex.attempt \in 1..retries
              /\ ~ retried => ex.attempt = 1

C6_Witness ==
    /\ Len(files) > 1
    /\ \E k \in 1..Len(files) : Len(files[k].base64.pages) > MAX_PAGES_PER_CHUNK
    /\ rawText.len > MAX_TEXT_LENGTH
    /\ retried
    /\ pc = "done"
    /\ outcome.state = "resolved"

\* C7: a single PDF that fails to decode does not fail the request: exactly
\* one invocation of callGeminiExtractWithRetry follows, with the whole
\* original document, and the request settles as that invocation does.
C7_DecodeFallback ==
    PdfCorrupt =>
        /\ pc \in {"start", "pdf_load", "await_standard", "done"}
        /\ chunkerRan \subseteq {"load"}
        /\ chunks = << >>
        /\ pc \in {"start", "pdf_load"} => invocations = << >>
        /\ pc \in {"await_standard", "done"} =>
              invocations = << [rawText |-> rawText, files |-> files, throttle |-> 0] >>
        /\ pc = "done" =>
              IF thrown = << >>
              THEN Len(oracleOut) = 1 /\ outcome = Resolved(oracleOut[1].value)
              ELSE outcome.state = "rejected" /\ outcome.error.inv = 1

C7_Witness ==
    /\ PdfCorrupt
    /\ pc = "done"
    /\ outcome.state = "resolved"
    /\ Len(outcome.value) > 0

\* C8 as stated: an error whose message contains 'safety' or 'blocked' makes
\* callGeminiExtractWithRetry fail after exactly one attempt, with no backoff
\* sleep, propagating that error.
C8_SafetyWordFailsFast ==
    (ex.pc \in {"backoff", "threw"} /\ ex.attempt = 1 /\ ex.failed.safety) =>
        /\ ex.pc = "threw"
        /\ ex.sleeps = 0
        /\ ex.error.attempt = 1

\* C8 amended: an error whose message contains 'safety' or 'blocked' and no
\* quota or transient word is thrown at once: no backoff sleep follows it and
\* the error of that attempt is the one propagated; when every failure is of
\* this kind the oracle is called exactly once.
C8_SafetyFailsFast ==
    /\ (ex.pc \in {"backoff", "threw"} /\ SafetyClassified(ex.failed)) =>
          /\ ex.pc = "threw"
          /\ ex.waitTime = 0
          /\ ex.sleeps = ex.attempt - 1
          /\ inflight = {}
          /\ ex.error.inv = Len(invocations)
          /\ ex.error.attempt = ex.attempt
          /\ Mentions(ex.error.msg) = ex.failed
    /\ (ex.pc \in {"backoff", "threw"} /\ ex.onlySafety) =>
          (ex.pc = "threw" /\ ex.attempt = 1 /\ ex.sleeps = 0)

C8_Witness ==
    /\ ex.pc = "threw"
    /\ ex.onlySafety
    /\ SafetyClassified(ex.failed)
    /\ ex.attempt = 1
    /\ ex.error.msg \in {{"safety"}, {"blocked"}}

\* the waits of the quota branch, as the claim lists them
QuotaSchedule(k) == IF k = 1 THEN 30000 ELSE IF k = 2 THEN 60000 ELSE 90000

\* C9: while every failure of an invocation is a quota error, the wait after
\* attempt k is 30 s, 60 s, then 90 s for every later attempt (a non-decreasing
\* sequence), no such failure below the cap is thrown, and a success at
\* attempt k+1 returns the oracle's answer.
C9_QuotaBackoff ==
    (ex.onlyQuota /\ ex.pc # "idle") =>
        /\ Len(ex.waits) = ex.sleeps
        /\ \A k \in 1..Len(ex.waits) : ex.waits[k] = QuotaSchedule(k)
        /\ \A j, k \in 1..Len(ex.waits) : j <= k => ex.waits[j] <= ex.waits[k]
        /\ ex.pc = "backoff" => ex.waitTime = ex.waits[Len(ex.waits)]
        /\ ex.pc = "threw" => ex.attempt = retries
        /\ ex.pc = "returned" =>
              /\ ex.sleeps = ex.attempt - 1
              /\ oracleOut # << >>
              /\ oracleOut[Len(oracleOut)] = [inv |-> Len(invocations), value |-> ex.result]

C9_Witness ==
    /\ ex.pc = "returned"
    /\ ex.onlyQuota
    /\ ex.sleeps >= 4
    /\ ex.result # << >>

\* what holds of callGeminiExtractWithRetry in every state
BoundedRetry ==
    /\ ex.attempt <= retries
    /\ \A r \in inflight : r.attempt <= retries
    /\ ex.pc = "backoff" => ex.attempt < retries
    /\ ex.pc = "returned" =>
          /\ inflight = {}
          /\ oracleOut # << >>
          /\ oracleOut[Len(oracleOut)] = [inv |-> Len(invocations), value |-> ex.result]
          /\ Cardinality({k \in 1..Len(oracleOut) : oracleOut[k].inv = Len(invocations)}) = 1
    /\ ex.pc = "threw" =>
          /\ inflight = {}
          /\ ex.error.inv = Len(invocations)
          /\ ex.error.attempt = ex.attempt
          /\ Mentions(ex.error.msg) = ex.failed
          /\ thrown # << >> /\ thrown[Len(thrown)] = Len(invocations)

\* C10: callGeminiExtractWithRetry calls the oracle at most `retries` times,
\* calls no more after the first success and returns its result, throws the
\* error of the final attempt when every attempt failed, and always settles.
C10_Terminates ==
    /\ [] BoundedRetry
    /\ (ex.pc = "calling") ~> (ex.pc \in {"returned", "threw"})

C10_Witness ==
    /\ ex.pc = "threw"
    /\ ex.attempt = retries
    /\ ex.sleeps = retries - 1
    /\ ex.failed.quota \/ ex.failed.transient

\* C11: a failure of attempt a below the cap whose message has a transient
\* word and no quota word starts a sleep of a * 3000 ms, after which attempt
\* a + 1 is made; that sleep is shorter than the quota wait of attempt a.
C11_TransientBackoff ==
    /\ [] ((ex.pc \in {"backoff", "threw"} /\ ex.failed.transient /\ ~ ex.failed.quota
                /\ ex.attempt < retries) =>
              /\ ex.pc = "backoff"
              /\ ex.waitTime = ex.attempt * 3000
              /\ ex.waitTime < QuotaSchedule(ex.attempt)
              /\ inflight = {})
    /\ [][(ex.pc = "backoff" /\ ex.failed.transient /\ ~ ex.failed.quota) =>
              /\ ex'.pc = "calling"
              /\ ex'.attempt = ex.attempt + 1
              /\ inflight' = {Request(Len(invocations), ex.attempt + 1, ex.rawText, ex.files)}]_vars

C11_Witness ==
    /\ ex.pc = "backoff"
    /\ ex.failed.transient /\ ~ ex.failed.quota
    /\ ex.attempt = retries - 1
    /\ ex.waitTime = 57000

\* C12: an error with no quota, transient or safety word is retried after a
\* 2000 ms delay on attempt 1 or 2 and thrown with no sleep on attempt 3 or
\* later, whatever failed before; when every failure is of this kind the
\* oracle is called exactly 3 times.
C12_OtherErrors ==
    /\ (ex.pc \in {"backoff", "threw"} /\ OtherClassified(ex.failed)) =>
          IF ex.attempt < 3
          THEN ex.pc = "backoff" /\ ex.waitTime = 2000
          ELSE /\ ex.pc = "threw"
               /\ ex.waitTime = 0
               /\ ex.sleeps = ex.attempt - 1
               /\ ex.error.attempt = ex.attempt
               /\ ex.error.inv = Len(invocations)
               /\ inflight = {}
    /\ (ex.pc = "threw" /\ ex.onlyOther) => (ex.attempt = 3 /\ ex.sleeps = 2)
    /\ (ex.onlyOther /\ ex.pc # "idle") => ex.attempt <= 3

C12_Witness ==
    /\ ex.pc = "threw"
    /\ OtherClassified(ex.failed)
    /\ ex.attempt > 3
    /\ ex.sleeps = ex.attempt - 1

-----------------------------------------------------------------------------
(* Properties of callGeminiExtract *)

\* the strict parse of the response text
Strict == JSONparse(responseText)

\* a non-null mapping
isMapping(v) == v.type = "object"

\* the embedded-array fallback finds a span that parses to an array
EmbeddedArray ==
    /\ match(responseText).found
    /\ JSONparse(match(responseText).span).ok
    /\ JSONparse(match(responseText).span).value.type = "array"

\* C13: when the response text strictly parses to a JSON array, the returned
\* list is exactly its elements that are non-null objects, in their order;
\* scalars, nulls and nested arrays are discarded.
C13_StrictArrayFilter ==
    (parsed.state # "pending" /\ Strict.ok /\ Strict.value.type = "array") =>
        parsed = Returned(SelectSeq(Strict.value.items, isMapping))

\* C14: every element of every list callGeminiExtract returns is a non-null
\* mapping, on the strict array, single object and embedded-array paths.
C14_ElementsAreMappings ==
    parsed.state = "returned" =>
        \A k \in 1..Len(parsed.value) : isMapping(parsed.value[k])

\* C15: whatever the response text, callGeminiExtract does not throw and
\* returns a list; the list is empty when neither the strict parse yields an
\* array or object nor the embedded-array fallback yields an array.
C15_NeverRaises ==
    /\ parsed.state \in {"pending", "returned"}
    /\ parsed.state = "returned" =>
          ((~ (Strict.ok /\ Strict.value.type \in {"array", "object"}) /\ ~ EmbeddedArray)
              => parsed.value = << >>)

C15_Witness ==
    /\ parsed = Returned(<< >>)
    /\ responseText = << "prose", "[", "prose", "]" >>

\* C16: when the response text strictly parses to a single JSON object, the
\* returned list has that object as its only element.
C16_SingleObject ==
    (parsed.state # "pending" /\ Strict.ok /\ Strict.value.type = "object") =>
        parsed = Returned(<< Strict.value >>)

C16_Witness ==
    /\ responseText = << "{b:2}" >>
    /\ parsed = Returned(<< JsonObject("b") >>)

-----------------------------------------------------------------------------
(* Properties of analyzeExtractedData *)

\* every analysis oracle call made so far has failed
AllTiersFailed ==
    /\ analysisCalls # << >>
    /\ \A k \in 1..Len(analysisCalls) :
          analysisCalls[k].outcome.kind \in {"empty", "unparseable", "throws"}

C18_TierOrder ==
    /\ Len(analysisCalls) <= 4
    /\ \A k \in 1..Len(analysisCalls) :
          /\ analysisCalls[k].tier = IF k = 1 THEN "deep" ELSE "standard"
          /\ k < Len(analysisCalls) =>
                analysisCalls[k].outcome.kind \in {"empty", "unparseable", "throws"}
          /\ analysisCalls[k].outcome.kind = "ok" =>
                /\ k = Len(analysisCalls)
                /\ analyzer.pc = "returned"
                /\ analyzer.result \in OracleAnalyses
    /\ (analysisCalls # << >> /\ analysisCalls[1].outcome.kind = "ok") =>
          Len(analysisCalls) = 1

C18_Witness ==
    /\ analyzer.pc = "returned"
    /\ Len(analysisCalls) = 4
    /\ analysisCalls[4].outcome.kind = "ok"

\* C19: every standard call after the first comes after a delay of 30 s when
\* the standard attempt before it failed with a '429' error and of 5 s when it
\* failed otherwise (exception or empty response); the first standard call
\* comes 15 s after a deep failure with '429' and 2 s after any other.
C19_RetryDelays ==
    \A k \in 2..Len(analysisCalls) :
        analysisCalls[k].waited =
            IF k = 2
            THEN (IF analysisCalls[1].outcome.has429 THEN 15000 ELSE 2000)
            ELSE (IF analysisCalls[k - 1].outcome.has429 THEN 30000 ELSE 5000)

-----------------------------------------------------------------------------
(* Properties of the App component *)

\* run r is the latest activation of handleProcess
LatestProcess(r) ==
    /\ runs[r].kind = "process"
    /\ \A q \in (r + 1)..Len(runs) : runs[q].kind # "process"

\* a request in its analysis phase while a later extraction has been started
OverlappingRequests ==
    \E r \in 1..Len(runs) :
        /\ runs[r].kind = "process" /\ runs[r].pc = "analyzing"
        /\ ~ LatestProcess(r)

\* the steps that settle an analysis, of handleProcess or of handleReAnalyze,
\* leave extractedData as it is
AnalysisKeepsRecords ==
    [][(\E r \in 1..Len(runs) : runs[r].pc = "analyzing" /\ runs'[r].pc = "done")
          => extractedData' = extractedData]_vars

\* C20: once handleProcess has obtained a non-empty record list from
\* extraction, extractedData is that list for the rest of the request (its
\* analysis phase), whether the analysis succeeds, gives the placeholder or
\* throws.
C20_ExtractedDataKept ==
    \A r \in 1..Len(runs) :
        (runs[r].kind = "process" /\ runs[r].pc = "analyzing") =>
            (Len(runs[r].data) > 0 /\ extractedData = runs[r].data)

-----------------------------------------------------------------------------
(* Properties of the entry points *)

\* the messages validateInput reports
ValidationMessages ==
    {"Offline Mode", "Please provide an extraction/comparison goal.",
     "Please upload files or paste text content to process."}

KeyMissingStatus == ErrorStatus("API Key is missing. Please configure your environment.")

\* C21: without the API credential no oracle call is attempted:
\* extractStructuredData and analyzeExtractedData throw the error of
\* getAiClient before any request or progress tick, handleProcess ends in the
\* error state before validation and starts no extraction, and no step of a
\* request in progress becomes possible.
C21_NoCallWithoutCredential ==
    ~ apiKey =>
        /\ invocations = << >> /\ inflight = {} /\ ex = IdleExec
        /\ progress = << >> /\ chunkerRan = {}
        /\ pc \in {"start", "done"}
        /\ pc = "done" => outcome = Rejected(MissingKeyError)
        /\ analysisCalls = << >>
        /\ analyzer.pc \in {"idle", "threw"}
        /\ analyzer.pc = "threw" => analyzer.error = "API_KEY environment variable is missing"
        /\ \A r \in 1..Len(runs) : runs[r].kind # "process"
        /\ status.step # "extracting"
        /\ status.message \notin ValidationMessages
        /\ history = storage.history
        /\ ~ ENABLED InProgressNext

C21_Witness ==
    /\ ~ apiKey
    /\ pc = "done" /\ Len(files) = 1
    /\ analyzer.pc = "threw"
    /\ status = KeyMissingStatus
    /\ trim(form.instruction) = ""

\* the goal is blank, or the pasted text is blank and no document is attached
BlankForm ==
    \/ trim(form.instruction) = ""
    \/ trim(form.rawText) = "" /\ form.files = 0

\* C22: with a blank goal, or blank text and no document, handleProcess starts
\* no extraction and adds nothing to the instruction history; the click ends in
\* the error state of validateInput, and reporting that error leaves
\* extractedData, analysis, the history, the storage and the runs as they were.
C22_InvalidFormRejected ==
    [][/\ (BlankForm /\ form' = form) =>
             /\ Len(runs') > Len(runs) => runs'[Len(runs')].kind # "process"
             /\ history' = history
             /\ storage'.history = storage.history
       /\ (BlankForm /\ apiKey /\ form' = form /\ runs' = runs /\ status'.step # status.step) =>
             /\ status'.message \in ValidationMessages
             /\ status' = ErrorStatus(status'.message)
       /\ (status' # status /\ status'.message \in ValidationMessages) =>
             /\ status' = ErrorStatus(status'.message)
             /\ UNCHANGED << extractedData, analysis, history, storage, runs >>]_vars

C22_Witness ==
    /\ BlankForm
    /\ status = ErrorStatus("Please upload files or paste text content to process.")
    /\ Len(extractedData) > 0
    /\ ~ analysis.isNull
    /\ history # << >>

\* the status handleProcess sets when extraction returned no record
NothingFoundStatus == ErrorStatus("No relevant data found matching your criteria.")

\* the phases of ProcessingStatus that the catch block of handleProcess sets
\* when extractStructuredData has thrown
FailurePhases ==
    {ErrorStatus(getFriendlyErrorMessage(msg, online)).step : msg \in AppErrors, online \in BOOLEAN}

\* C23: an extraction that succeeds with zero records ends handleProcess in a
\* phase that differs from the phase reached when extraction raised an error.
C23_EmptyDistinctFromFailure ==
    [][\A r \in 1..Len(runs) :
          (/\ runs[r].kind = "process" /\ runs[r].pc = "extracting"
           /\ runs'[r].pc = "done"
           /\ status' = NothingFoundStatus) =>
              status'.step \notin FailurePhases]_vars

-----------------------------------------------------------------------------
(* Properties of strategy selection and of the chunkers *)

\* a single PDF that decodes and has at most the page bound of pages
PdfUnderBound ==
    /\ Len(files) = 1
    /\ files[1].mimeType = "application/pdf" \/ files[1].name \in {<<"report", ".pdf">>, <<"REPORT", ".PDF">>}
    /\ files[1].base64.ok
    /\ Len(files[1].base64.pages) <= MAX_PAGES_PER_CHUNK

\* no documents and raw text of at most the character bound
TextUnderBound == Len(files) = 0 /\ rawText.len <= MAX_TEXT_LENGTH

\* the one invocation that carries the whole input
WholeInput == [rawText |-> rawText, files |-> files, throttle |-> 0]

\* C24: a single PDF of at most MAX_PAGES_PER_CHUNK pages, or raw text of at
\* most MAX_TEXT_LENGTH characters with no documents, is not chunked: exactly
\* one invocation of callGeminiExtractWithRetry is made and it carries the
\* whole raw text and the whole document list.
C24_UnderBoundNotChunked ==
    (PdfUnderBound \/ TextUnderBound) =>
        /\ chunkerRan \subseteq {"load"}
        /\ chunks = << >>
        /\ pc \in {"start", "pdf_load", "await_standard", "done"}
        /\ pc \in {"start", "pdf_load"} => invocations = << >>
        /\ pc \in {"await_standard", "done"} => invocations = << WholeInput >>
        /\ \A r \in inflight : r.inv = 1 /\ r.rawText = rawText /\ r.files = files

C24_Witness ==
    /\ PdfUnderBound
    /\ Len(files[1].base64.pages) = MAX_PAGES_PER_CHUNK
    /\ rawText.len > MAX_TEXT_LENGTH
    /\ retried
    /\ pc = "done"
    /\ outcome.state = "resolved"
    /\ Len(outcome.value) > 0

\* C25: chunkString on a text of length L with bound B >= 1 returns ceil(L/B)
\* pieces; the pieces follow one another from the first character to the last,
\* so that their concatenation is the text; every piece but the last has
\* length B and the last one is not empty; the empty text gives no piece.
C25_ChunkStringRoundTrip ==
    (chunker.fn = "chunkString" /\ chunker.pc = "returned") =>
        LET L == chunker.str.len
            B == chunker.size
            r == chunker.result
            n == Len(r)
        IN  /\ n * B >= L
            /\ n > 0 => (n - 1) * B < L
            /\ L = 0 => r = << >>
            /\ \A k \in 1..n :
                  /\ r[k].off = IF k = 1 THEN chunker.str.off ELSE r[k - 1].off + r[k - 1].len
                  /\ r[k].len \in 1..B
                  /\ k < n => r[k].len = B
            /\ n > 0 => r[n].off + r[n].len = chunker.str.off + L

C25_Witness ==
    /\ chunker.fn = "chunkString" /\ chunker.pc = "returned"
    /\ Len(chunker.result) >= 3
    /\ chunker.result[Len(chunker.result)].len < chunker.size

\* the indices of the chunks, one chunk after the other
RECURSIVE FlattenChunks(_)
FlattenChunks(cs) ==
    IF cs = << >> THEN << >> ELSE Head(cs) \o FlattenChunks(Tail(cs))

\* C26: chunkArray on the indices 0..P-1 with bound B >= 1 returns ceil(P/B)
\* chunks of at most B indices each, whose concatenation is 0, 1, ..., P-1:
\* ascending, nothing repeated, nothing missing.
C26_ChunkArrayPartition ==
    (chunker.fn = "chunkArray" /\ chunker.pc = "returned") =>
        LET P == Len(chunker.arr)
            B == chunker.size
            r == chunker.result
            n == Len(r)
        IN  /\ n * B >= P
            /\ n > 0 => (n - 1) * B < P
            /\ \A k \in 1..n : Len(r[k]) \in 1..B
            /\ FlattenChunks(r) = [j \in 1..P |-> j - 1]

C26_Witness ==
    /\ chunker.fn = "chunkArray" /\ chunker.pc = "returned"
    /\ Len(chunker.result) >= 3
    /\ Len(chunker.result[Len(chunker.result)]) < chunker.size
    /\ chunker.arr = << 0, 1, 2, 3, 4, 5, 6 >>

\* the request takes Case 4: at most one document, no PDF over the page bound,
\* no text over the character bound without a document
StandardStrategy == Len(files) <= 1 /\ ~ PdfOverBound /\ ~ TextOverBound

Ticked(p) == \E k \in 1..Len(progress) : progress[k] = p

\* C27: in the standard strategy extractStructuredData invokes
\* callGeminiExtractWithRetry exactly once, with the whole input; tick 10 is
\* reported when that call is made and not before; tick 100 is the last tick
\* and is reported only when the call has returned, with its result; when the
\* call throws the request rejects and no tick follows the 10.
C27_StandardTicks ==
    StandardStrategy =>
        /\ Len(invocations) <= 1
        /\ invocations # << >> => invocations = << WholeInput >>
        /\ Ticked(10) <=> invocations # << >>
        /\ \A k \in 1..Len(progress) :
              /\ progress[k] = 10 => (k = 1 \/ (k = 2 /\ progress[1] = 5))
              /\ progress[k] = 100 => (k = Len(progress) /\ k > 1 /\ progress[k - 1] = 10)
        /\ Ticked(100) =>
              /\ pc = "done" /\ inflight = {} /\ thrown = << >>
              /\ Len(oracleOut) = 1
              /\ outcome = Resolved(oracleOut[1].value)
        /\ pc = "done" =>
              /\ Len(invocations) = 1
              /\ outcome.state = "resolved" <=> Ticked(100)
              /\ outcome.state = "rejected" <=> thrown = << 1 >>
              /\ outcome.state = "rejected" => progress[Len(progress)] = 10

C27_Witness ==
    /\ StandardStrategy
    /\ Len(files) = 1
    /\ pc = "done"
    /\ retried
    /\ outcome.state = "resolved"
    /\ Len(outcome.value) > 0
    /\ progress = << 5, 10, 100 >>

\* the same request when its call has thrown
StandardFailed ==
    /\ StandardStrategy
    /\ pc = "done"
    /\ outcome.state = "rejected"
    /\ progress = << 10 >>

\* C28: every PDF chunk submitted to the oracle carries the MIME type of its
\* parent document, also when the parent is a PDF by its '.pdf' name alone.
\* The single-document revision submits every chunk as 'application/pdf'.
C28_ChunkKeepsMimeType ==
    \A k \in 1..Len(single.submitted) :
        single.submitted[k].fileData.mimeType = single.fileData.mimeType

\* the multi-document revision: every document submitted for a single PDF, a
\* chunk or the whole document, has the MIME type of the parent; a chunk
\* differs from its parent in its pages (a run of the parent's pages) and in
\* its name only
MultiChunkKeepsMimeType ==
    (Len(files) = 1 /\ (PdfOverBound \/ PdfUnderBound \/ PdfCorrupt)) =>
        /\ \A k \in 1..Len(invocations) :
              /\ Len(invocations[k].files) = 1
              /\ invocations[k].files[1].mimeType = files[1].mimeType
              /\ invocations[k].files[1] # files[1] =>
                    /\ invocations[k].files[1].name # files[1].name
                    /\ \A j \in 1..Len(invocations[k].files[1].base64.pages) :
                          \E q \in 1..Len(files[1].base64.pages) :
                             invocations[k].files[1].base64.pages[j] = files[1].base64.pages[q]
        /\ \A r \in inflight : r.files[1].mimeType = files[1].mimeType

MultiChunkedByName ==
    /\ PdfOverBound
    /\ files[1].mimeType = "application/octet-stream"
    /\ Len(invocations) = Len(files[1].base64.pages)
    /\ \A k \in 1..Len(invocations) : invocations[k].files[1] # files[1]
    /\ pc = "done"
    /\ outcome.state = "resolved"

(* Properties of the instruction history *)

\* every instruction passed to addToInstructionHistory so far, oldest first
AllAdded == added.before \o added.now

\* the position of the latest call with this instruction, 0 if there is none
LastAdded(instruction) ==
    Max(0, CHOOSE k \in 0..Len(AllAdded) :
               /\ k > 0 => AllAdded[k] = instruction
               /\ \A j \in (k + 1)..Len(AllAdded) : AllAdded[j] # instruction)

Without(seq, instruction) == SelectSeq(seq, LAMBDA h : h # instruction)

\* the stored list: at most HISTORY_LIMIT entries, each one added, ordered by
\* latest call (so without duplicates), the last added first, none left out
\* that was added later than one that is kept
HistoryWellFormed ==
    LET h == storage.history
    IN  /\ Len(h) = Min(HISTORY_LIMIT, Cardinality({AllAdded[k] : k \in 1..Len(AllAdded)}))
        /\ \A a \in 1..Len(h) : LastAdded(h[a]) > 0
        /\ \A a, b \in 1..Len(h) : a < b => LastAdded(h[a]) > LastAdded(h[b])
        /\ \A a, b \in 1..Len(h) : a # b => h[a] # h[b]
        /\ AllAdded # << >> => h[1] = AllAdded[Len(AllAdded)]
        /\ \A k \in 1..Len(AllAdded) :
              (\A a \in 1..Len(h) : h[a] # AllAdded[k]) =>
                  \A a \in 1..Len(h) : LastAdded(h[a]) > k
        /\ history = h

\* a call puts its instruction first and keeps the others in their order,
\* dropping only from the end; a call with a stored instruction drops none
HistoryMovesToHead ==
    added' # added =>
        LET instruction == added'.now[Len(added'.now)]
            others == Without(storage.history, instruction)
            othersAfter == Without(storage'.history, instruction)
        IN  /\ storage'.history[1] = instruction
            /\ Len(othersAfter) <= Len(others)
            /\ othersAfter = SubSeq(others, 1, Len(othersAfter))
            /\ (\E a \in 1..Len(storage.history) : storage.history[a] = instruction) =>
                  /\ othersAfter = others
                  /\ Len(storage'.history) = Len(storage.history)

\* C29: after any sequence of addToInstructionHistory calls with non-blank
\* instructions the stored history has at most 10 entries, no duplicates, is
\* ordered most-recent-first with the last added instruction at the head, and
\* re-adding a stored instruction moves it to the head without changing the
\* relative order of the others.
C29_HistoryBoundedRecentFirst == [] HistoryWellFormed /\ [][HistoryMovesToHead]_vars

\* a full history that has dropped an instruction and in which an instruction
\* stored further down was added again
C29_Witness ==
    /\ Len(storage.history) = HISTORY_LIMIT
    /\ \E k \in 1..Len(AllAdded) : \A a \in 1..Len(storage.history) : storage.history[a] # AllAdded[k]
    /\ Len(added.now) >= 2
    /\ LET instruction == added.now[Len(added.now)]
           earlier == added.before \o SubSeq(added.now, 1, Len(added.now) - 1)
       IN  /\ \E k \in 1..(Len(earlier) - 1) : earlier[k] = instruction
           /\ earlier[Len(earlier)] # instruction
           /\ \A a \in 1..Len(storage.history) :
                 \E k \in 1..Len(earlier) : earlier[k] = storage.history[a]

\* C30: with exactly one document and raw text over the character bound
\* chunkString is never called, and every invocation and every oracle call of
\* the request carries the raw text whole.
C30_TextWholeWithDocument ==
    (Len(files) = 1 /\ rawText.len > MAX_TEXT_LENGTH) =>
        /\ "chunkString" \notin chunkerRan
        /\ pc \notin {"await_text", "text_throttle"}
        /\ \A k \in 1..Len(invocations) : invocations[k].rawText = rawText
        /\ \A r \in inflight : r.rawText = rawText
        /\ ex.pc # "idle" => ex.rawText = rawText

C30_Witness ==
    /\ PdfOverBound
    /\ rawText.len > MAX_TEXT_LENGTH
    /\ Len(invocations) >= 2
    /\ retried
    /\ pc = "done"
    /\ outcome.state = "resolved"

\* the same for a document that is no PDF
ImageWithLargeText ==
    /\ Len(files) = 1 /\ files[1].mimeType = "image/png"
    /\ rawText.len > MAX_TEXT_LENGTH
    /\ pc = "done"

(* Properties of the retry executor as a state machine *)

\* the activation counts one sleep per failed attempt that was not the last
ExecutorCounts ==
    /\ ex.pc = "idle" => ex.attempt = 0 /\ ex.sleeps = 0
    /\ ex.pc = "calling" => ex.attempt \in 1..retries /\ ex.sleeps = ex.attempt - 1
    /\ ex.pc = "backoff" => ex.attempt \in 1..(retries - 1) /\ ex.sleeps = ex.attempt
    /\ ex.pc \in {"returned", "threw"} =>
          ex.attempt \in 1..retries /\ ex.sleeps = ex.attempt - 1

\* the steps of one activation: Idle -> Attempting -> {Success, Backoff, Fail},
\* Backoff -> Attempting with the attempt number one higher and its request issued
ExecutorSteps ==
    /\ (ex.pc = "idle" /\ ex'.pc # "idle") => ex'.pc = "calling" /\ ex'.attempt = 1
    /\ (ex.pc = "calling" /\ ex' # ex) =>
          /\ ex'.pc \in {"returned", "backoff", "threw"}
          /\ ex'.attempt = ex.attempt
    /\ (ex.pc = "backoff" /\ ex' # ex) =>
          /\ ex'.pc = "calling"
          /\ ex'.attempt = ex.attempt + 1
          /\ ex'.sleeps = ex.sleeps
          /\ inflight' = {Request(Len(invocations), ex'.attempt, ex.rawText, ex.files)}
          /\ invocations' = invocations
    /\ (ex.pc \in {"returned", "threw"} /\ ex' # ex) =>
          \/ ex'.pc = "idle"
          \/ ex'.pc = "calling" /\ ex'.attempt = 1 /\ Len(invocations') = Len(invocations) + 1

\* C31: callGeminiExtractWithRetry follows Idle -> Attempting -> {Success,
\* Backoff -> Attempting, Fail}: every backoff sleep is followed by exactly
\* one further attempt, the executor never terminates directly from a
\* backoff, never sleeps after the final allowed attempt, and on every run the
\* number of sleeps equals the number of attempts minus one.
C31_ExecutorStateMachine == [] ExecutorCounts /\ [][ExecutorSteps]_vars

\* a run that slept after every attempt but the last allowed one and failed at the cap
C31_Witness ==
    /\ ex.pc = "threw"
    /\ ex.attempt = retries
    /\ ex.sleeps = retries - 1

\* a run that succeeded after backoffs
SucceededAfterBackoff == ex.pc = "returned" /\ ex.sleeps >= 2 /\ ex.result # << >>

(* Properties of the embedded-array fallback *)

\* the first "[" of the response text, 0 if there is none
FirstOpen(t) ==
    LET opens == {k \in 1..Len(t) : t[k] = "["}
    IN  IF opens = {} THEN 0 ELSE CHOOSE k \in opens : \A j \in opens : k <= j

\* the text holds a JSON array in prose: strict parsing fails and a JSON array
\* starts at the first "["
EmbedsArray(t) ==
    /\ ~ JSONparse(t).ok
    /\ FirstOpen(t) > 0
    /\ parseValue(t, FirstOpen(t)).ok

\* the array of the first '[...]' span
FirstSpanArray(t) == parseValue(t, FirstOpen(t)).value.items

\* C32: when strict parsing fails and the response text holds a JSON array in
\* prose, callGeminiExtract returns that array, the one of the first '[...]'
\* span, also when the prose after it contains brackets.  The pattern
\* /\[.*\]/s is greedy: the span it gives ends at the last "]" of the text.
C32_FirstSpanRecovered ==
    (parsed.state = "returned" /\ EmbedsArray(responseText)) =>
        parsed.value = FirstSpanArray(responseText)

\* what the code does recover: an embedded array with no "]" after its own
RecoveredWithoutLaterBracket ==
    (/\ parsed.state = "returned"
     /\ EmbedsArray(responseText)
     /\ \A k \in parseValue(responseText, FirstOpen(responseText)).next..Len(responseText) :
           responseText[k] # "]") =>
        parsed.value = FirstSpanArray(responseText)

ProseAroundArrayRecovered ==
    /\ parsed.state = "returned"
    /\ responseText = << "prose", "[", "{a:1}", "]", "prose" >>
    /\ parsed.value = << JsonObject("a") >>

-----------------------------------------------------------------------------
(* Properties of the phases of the App component *)

\* run r takes a step: it is started, or it moves on
RunSteps(r) == r > Len(runs) \/ runs'[r] # runs[r]

\* the phases one activation of handleProcess sets, step by step
ProcessPhases ==
    \A r \in 1..Len(runs') :
        (runs'[r].kind = "process" /\ RunSteps(r)) =>
            IF r > Len(runs)
            THEN /\ runs'[r].pc = "extracting"
                 /\ status'.step = "extracting"
            ELSE /\ runs[r].pc = "extracting" =>
                    \/ /\ runs'[r].pc = "analyzing"
                       /\ status'.step = "analyzing"
                       /\ Len(extractedData') > 0
                       /\ runs'[r].data = extractedData'
                    \/ /\ runs'[r].pc = "done"
                       /\ status'.step = "error"
                 /\ runs[r].pc = "analyzing" =>
                    /\ runs'[r].pc = "done"
                    /\ \/ /\ status'.step = "complete"
                          /\ ~ analysis'.isNull
                          /\ analysis'.from = runs[r].data
                          /\ storage'.analysis = analysis'
                       \/ status'.step = "error"
                 /\ runs[r].pc # "done"

\* a request that has ended takes no step, and every change of the phase is
\* a step of a request that has not ended
EndedRequestsRest ==
    /\ \A r \in 1..Len(runs) : runs[r].pc = "done" => runs'[r] = runs[r]
    /\ status'.step # status.step =>
          \/ \E r \in 1..Len(runs') : RunSteps(r)
          \/ status'.step = "error" /\ runs' = runs

\* C33: within one handleProcess the phase goes extracting -> analyzing ->
\* complete: 'analyzing' is entered only after extraction returned at least
\* one record, 'complete' only after an analysis result was stored, and once
\* the request has reached 'error' or 'complete' no later step of it changes
\* the phase.
C33_PhaseOrder == [][ProcessPhases /\ EndedRequestsRest]_vars

\* a handleProcess that went through all phases; another that ended in error
C33_Witness ==
    /\ \E r \in 1..Len(runs) :
          runs[r].kind = "process" /\ runs[r].pc = "done" /\ Len(runs[r].data) > 0
    /\ status.step = "complete"
    /\ ~ analysis.isNull
    /\ analysis.from = extractedData
    /\ \E r \in 1..Len(runs) :
          runs[r].kind = "process" /\ runs[r].pc = "done" /\ Len(runs[r].data) = 0

-----------------------------------------------------------------------------
(* Properties of the order of the failure classes *)

\* the catch block is handling, or has thrown on, the error of ex.attempt
Handled == ex.pc \in {"backoff", "threw"}

\* what the catch block did with an error of each class, first match in the
\* order quota, transient, safety, other
FirstMatch ==
    IF ex.failed.quota
    THEN ex.pc = "backoff" /\ ex.waitTime = quotaWaitTime(ex.attempt)
    ELSE IF ex.failed.transient
    THEN ex.pc = "backoff" /\ ex.waitTime = transientWaitTime(ex.attempt)
    ELSE IF ex.failed.safety
    THEN ex.pc = "threw"
    ELSE IF ex.attempt < 3
    THEN ex.pc = "backoff" /\ ex.waitTime = 2000
    ELSE ex.pc = "threw"

\* C34, as stated: failure classification is first-match in the order quota,
\* transient, safety, other; an error with a quota word is always retried
\* with the quota backoff, also when it has a safety or transient word, and an
\* error with a transient word is retried also when it has a safety word.
C34_AlwaysFirstMatch == Handled => FirstMatch

\* C34, amended: the same on every attempt but the last allowed one; the
\* error of attempt `retries` is thrown on whatever its words.
C34_FirstMatchBeforeCap ==
    Handled =>
        IF ex.attempt = retries THEN ex.pc = "threw" ELSE FirstMatch

\* the quota backoff for an error that has a safety word as well
C34_Witness ==
    /\ ex.pc = "backoff"
    /\ ex.failed.quota /\ ex.failed.safety
    /\ ex.attempt >= 3
    /\ ex.waitTime = 90000

\* the transient backoff for an error that has a safety word as well
TransientBeforeSafety ==
    /\ ex.pc = "backoff"
    /\ ~ ex.failed.quota /\ ex.failed.transient /\ ex.failed.safety
    /\ ex.waitTime = transientWaitTime(ex.attempt)

\* the quota backoff for an error that has a transient word as well
QuotaBeforeTransient ==
    /\ ex.pc = "backoff"
    /\ ex.failed.quota /\ ex.failed.transient
    /\ ex.attempt = 2
    /\ ex.waitTime = 60000

-----------------------------------------------------------------------------
(* Properties of requests running at the same time *)

\* the activations awaiting analyzeExtractedData, and those awaiting
\* extractStructuredData
Analyzing == {r \in 1..Len(runs) : runs[r].pc = "analyzing"}
Extracting == {r \in 1..Len(runs) : runs[r].pc = "extracting"}

\* C35: at most one analyzeExtractedData call is in flight at any time: while
\* an analysis started by handleProcess or handleReAnalyze is pending, no user
\* action starts a second analysis or a new extraction.
C35_OneAnalysisInFlight ==
    /\ Cardinality(Analyzing) <= 1
    /\ Analyzing # {} => Extracting = {}

\* status.isProcessing is true exactly in the phases 'extracting' and 'analyzing'
ProcessingIffWorking ==
    status.isProcessing <=> status.step \in {"extracting", "analyzing"}

\* C36: status.isProcessing is true exactly when status.step is 'extracting'
\* or 'analyzing', and whenever an extraction or analysis call is in flight
\* status.isProcessing is true.
C36_StatusTracksCalls ==
    /\ ProcessingIffWorking
    /\ (Analyzing \cup Extracting) # {} => status.isProcessing

\* C37: whenever the analysis is non-null it was computed from the records
\* currently held in extractedData.
C37_AnalysisOfCurrentRecords ==
    ~ analysis.isNull => analysis.from = extractedData

\* C38: loadExtractionSession returns the records of the most recent save
\* together with an analysis that was saved with those same records, or
\* null; after saveExtractionSession(data, null) it returns analysis null.
C38_SessionSelfConsistent ==
    LET session == loadExtractionSession(storage)
    IN  session.analysis.isNull \/ session.analysis.from = session.data

\* the step of handleProcess that calls saveExtractionSession(data, null)
\* leaves the analysis that was stored before
NullSaveKeepsAnalysis ==
    [][(\E r \in 1..Len(runs) : runs[r].pc = "extracting" /\ runs'[r].pc # "extracting"
                                  /\ extractedData' # extractedData)
          => loadExtractionSession(storage').analysis = loadExtractionSession(storage).analysis]_vars

-----------------------------------------------------------------------------
(* Properties of the number of calls of one extraction *)

\* the number of chunks of the input; 1 when the input is not chunked
ChunkCount ==
    IF PdfOverBound THEN Ceil(Len(files[1].base64.pages), MAX_PAGES_PER_CHUNK)
    ELSE IF TextOverBound THEN Ceil(rawText.len, MAX_TEXT_LENGTH)
    ELSE 1

\* C39: for an input that yields n chunks extractStructuredData makes at most
\* n * retries oracle calls, that is at most n invocations of the executor
\* with at most `retries` attempts each, and a chunked run that is abandoned
\* does not submit the same content again under another strategy: the whole
\* document, or the whole text, is never submitted for a chunked input.
C39_CallsBoundedNoResubmission ==
    /\ Len(invocations) <= ChunkCount
    /\ ex.attempt <= retries
    /\ \A r \in inflight : r.attempt <= retries
    /\ PdfOverBound => \A k \in 1..Len(invocations) : invocations[k].files # files
    /\ TextOverBound => \A k \in 1..Len(invocations) : invocations[k].rawText # rawText

\* the abandoned text chunk loop does stop: no invocation after one that threw
TextRunAbandoned ==
    (TextOverBound /\ thrown # << >>) =>
        /\ Len(invocations) = thrown[1]
        /\ Len(invocations) <= ChunkCount
        /\ \A k \in 1..Len(invocations) : invocations[k].rawText # rawText

\* after every chunk of a PDF was submitted and the last one threw, the whole
\* document is submitted: one invocation more than there are chunks
WholeDocumentAfterLastChunk ==
    /\ PdfOverBound
    /\ Len(invocations) = ChunkCount + 1
    /\ invocations[Len(invocations)].files = files
    /\ pc = "done"
    /\ outcome.state = "resolved"
====
